---- MODULE Spec2Model ----
(***************************************************************************)
(* Two-player Wordle duel contract (src/src/lib.rs) as a state machine.    *)
(*                                                                         *)
(* Every contract entry point is one atomic action.  Its code is an        *)
(* operator of the same name that maps the current storage and the call's  *)
(* inputs to the call's outcome: Fail(error), or Done(..) with the writes, *)
(* transfers and hub calls it made.  A call that returns Err(..) or traps  *)
(* is rolled back by the host: the step leaves every variable as it was,   *)
(* and the error is what the operator yields in that state.  `ret` is the  *)
(* record of the last call that committed.                                 *)
(*                                                                         *)
(* The proof verifier, the token and the game hub are external.  The       *)
(* verifier's verdict on the supplied (proof, public inputs) is an input   *)
(* of the call.  A player's transfer to the contract and a hub call that   *)
(* trap abort the call, which is a step that changes nothing.              *)
(* Storage expiry (TTL) is not modelled: the model covers a game while     *)
(* its entries are live.                                                   *)
(***************************************************************************)
EXTENDS Integers, Sequences, FiniteSets, TLC

\* ---------------------------------------------------------------- constants

TURN_DURATION_SECS == 300

MAX_TURNS == 13

PHASE_WAITING == 0

PHASE_ACTIVE == 1

PHASE_REVEAL == 2

PHASE_FINALIZED == 3

PHASE_DRAW == 4

\* The proof length the verifier crate fixes; only equality with it is used.
PROOF_BYTES == "PROOF_BYTES"

\* ------------------------------------------------------------------- bounds

\* Seconds the ledger clock advances in one Tick.
TickSecs == 150

\* The ledger clock is not advanced past this time.
MaxTime == 450

\* Number of register_session_key calls explored.
MaxRegs == 1

\* The stake a creator may put up (besides 0).
Stake == 100

\* ------------------------------------------------------------------ domains

Addr == {"alice", "bob", "carol"}

\* Identities that call create_game / join_game (the others are symmetric).
Creators == {"alice"}

Joiners == {"alice", "bob"}

\* Identities that register themselves as a session key.
SessionKeys == {"carol"}

GameIds == {"g1"}

Tokens == {"xlm"}

Amounts == {0, Stake}

\* Commitments are opaque 32-byte values; ZeroCommitment is 32 zero bytes.
ZeroCommitment == "c0"

\* The creator's commitment (the joiner's ranges over all: equal to it or not).
CreatorCommitments == {"cA"}

Commitments == {"cA", "cB"}

\* Words are byte sequences (ASCII codes).
apple == <<97, 112, 112, 108, 101>>

grape == <<103, 114, 97, 112, 101>>

lemon == <<108, 101, 109, 111, 110>>

olive == <<111, 108, 105, 118, 101>>

\* a lowercase word that is not in the dictionary
zzzzz == <<122, 122, 122, 122, 122>>

\* a word with an upper-case letter
Apple == <<65, 112, 112, 108, 101>>

\* a word of the wrong length
app == <<97, 112, 112>>

EmptyBytes == <<>>

Dictionary == <<apple, grape, lemon, olive>>

\* ---------------------------------------------------------------- variables

VARIABLES
    temporary,        \* temporary storage, per game id: key symbol -> value (absent keys are not in the domain)
    session_key,      \* temporary storage ("sk", game, player) -> session key
    session_reverse,  \* temporary storage ("sk_rev", session key) -> <<game, player>>
    game_count,       \* persistent "gm_cnt"
    game_at,          \* persistent ("gm_at", index) -> game id
    game_creator,     \* persistent ("gm_crea", game) -> creator
    now,              \* env.ledger().timestamp()
    balance,          \* the contract's token balance, per token
    escrow_in,        \* per game: total transferred to the contract by create/join
    escrow_out,       \* per game: total transferred out of the contract by withdraw
    hub,              \* calls received by the game hub, in order
    regs,             \* number of successful register_session_key calls so far
    ret               \* the last call: operation, arguments that identify it, and its outcome

vars == <<temporary, session_key, session_reverse, game_count, game_at, game_creator,
          now, balance, escrow_in, escrow_out, hub, regs, ret>>

\* Everything the contract stores, and the external token / hub state.
storage == <<temporary, session_key, session_reverse, game_count, game_at, game_creator,
             balance, escrow_in, escrow_out, hub>>

\* ---------------------------------------------------------- storage helpers

\* env.storage().temporary().has(key)
Has(t, k) == k \in DOMAIN t

\* env.storage().temporary().set(key, value)
Set(t, k, v) == [x \in (DOMAIN t) \cup {k} |-> IF x = k THEN v ELSE t[x]]

\* env.storage().temporary().get(key).unwrap_or(d)
GetOr(t, k, d) == IF k \in DOMAIN t THEN t[k] ELSE d

\* ------------------------------------------------ dictionary membership (4.3)

\* U256::from_u128(l1*256^4 + l2*256^3 + l3*256^2 + l4*256 + l5): the value is kept
\* as its base-256 numeral, most significant digit first (the letters are >= 0x61,
\* so there is no leading zero).
LeafValueReversed(word_bytes) == <<word_bytes[5], word_bytes[4], word_bytes[3], word_bytes[2], word_bytes[1]>>

leaf_value(word_bytes) == <<word_bytes[1], word_bytes[2], word_bytes[3], word_bytes[4], word_bytes[5]>>

\* env.crypto().poseidon2_hash([a, b]): an injective pairing of two digests.
poseidon2_hash(a, b) == <<Len(a)>> \o a \o b

\* The root of the (bounded) dictionary tree, depth 2.
MERKLE_ROOT == poseidon2_hash(poseidon2_hash(leaf_value(Dictionary[1]), leaf_value(Dictionary[2])), poseidon2_hash(leaf_value(Dictionary[3]), leaf_value(Dictionary[4])))

\* One step of the fold, lib.rs 1389..1404.
FoldStepSwapped(current_hash, sibling, idx) == IF idx = 0 THEN poseidon2_hash(sibling, current_hash) ELSE poseidon2_hash(current_hash, sibling)

FoldStep(current_hash, sibling, idx) == IF idx = 0 THEN poseidon2_hash(current_hash, sibling) ELSE poseidon2_hash(sibling, current_hash)

RECURSIVE FoldPath(_, _, _, _)
FoldPath(current_hash, path_elements, path_indices, i) ==
    IF i > Len(path_elements) THEN current_hash
    ELSE FoldPath(FoldStep(current_hash, path_elements[i], path_indices[i]), path_elements, path_indices, i + 1)

\* do_verify_guess: "Ok" or the error it returns; "HostError" is a trap (unwrap of a
\* missing path index).
do_verify_guess(guess_word, path_elements, path_indices) ==
    IF Len(guess_word) # 5 THEN "InvalidGuessLength"
    ELSE IF \E i \in 1..5 : guess_word[i] < 97 \/ guess_word[i] > 122 THEN "InvalidCharacter"
    ELSE IF Len(path_indices) < Len(path_elements) THEN "HostError"
    ELSE IF FoldPath(leaf_value(guess_word), path_elements, path_indices, 1) # MERKLE_ROOT THEN "InvalidMerkleProof"
    ELSE "Ok"

\* The sibling path and side bits of the dictionary word at position i (1..4).
PathElements(i) ==
    <<leaf_value(Dictionary[IF i % 2 = 1 THEN i + 1 ELSE i - 1]),
      IF i <= 2 THEN poseidon2_hash(leaf_value(Dictionary[3]), leaf_value(Dictionary[4]))
      ELSE poseidon2_hash(leaf_value(Dictionary[1]), leaf_value(Dictionary[2]))>>

PathIndices(i) == <<(i - 1) % 2, (i - 1) \div 2>>

\* ------------------------------------------------ commitment/reveal binder (4.2)

\* Public inputs of the guess-result circuit, by field: bytes 0..31 (commitment), the
\* last bytes of the five letter fields, the last bytes of the five result fields.
\* A buffer too short for a field reads as 0 there (unwrap_or(0)).
EmptyPI == [commitment |-> ZeroCommitment, letters |-> <<0, 0, 0, 0, 0>>, results |-> <<0, 0, 0, 0, 0>>]

AllCorrect == <<2, 2, 2, 2, 2>>

NotAllCorrect == <<2, 0, 1, 2, 2>>

extract_commitment_from_pi(public_inputs) == public_inputs.commitment

PiLettersMatchFirstOnly(public_inputs, word) == public_inputs.letters[1] = word[1]

PiLettersMatchLastOnly(public_inputs, word) == public_inputs.letters[5] = word[5]

pi_letters_match(public_inputs, word) == \A i \in 1..5 : public_inputs.letters[i] = word[i]

\* The external UltraHonk verifier's verdict on (proof, public inputs) is carried by
\* the proof: proof_bytes = [len, verifies].
DoVerifyProofNoLength(public_inputs, proof_bytes) ==
    IF ~proof_bytes.verifies THEN "VerificationFailed" ELSE "Ok"

do_verify_proof(public_inputs, proof_bytes) ==
    IF proof_bytes.len # PROOF_BYTES THEN "ProofParseError"
    ELSE IF ~proof_bytes.verifies THEN "VerificationFailed"
    ELSE "Ok"

\* verify_proof of the standalone word-commit-verifier contract.
verify_proof(public_inputs, proof_bytes) ==
    IF proof_bytes.len # PROOF_BYTES THEN "ProofParseError"
    ELSE IF ~proof_bytes.verifies THEN "VerificationFailed"
    ELSE "Ok"

DoVerifyRevealNoCommitment(commitment, reveal_word, public_inputs, proof_bytes) ==
    IF Len(reveal_word) # 5 THEN "InvalidGuessLength"
    ELSE IF ~pi_letters_match(public_inputs, reveal_word) THEN "InvalidReveal"
    ELSE IF \E i \in 1..5 : public_inputs.results[i] # 2 THEN "InvalidReveal"
    ELSE do_verify_proof(public_inputs, proof_bytes)

do_verify_reveal(commitment, reveal_word, public_inputs, proof_bytes) ==
    IF commitment # extract_commitment_from_pi(public_inputs) THEN "InvalidReveal"
    ELSE IF Len(reveal_word) # 5 THEN "InvalidGuessLength"
    ELSE IF ~pi_letters_match(public_inputs, reveal_word) THEN "InvalidReveal"
    ELSE IF \E i \in 1..5 : public_inputs.results[i] # 2 THEN "InvalidReveal"
    ELSE do_verify_proof(public_inputs, proof_bytes)

\* Word-commit public inputs: [commitment (32 bytes), merkle_root (32 bytes)].
do_verify_word_commit(commitment, public_inputs, proof_bytes) ==
    IF proof_bytes.len # PROOF_BYTES THEN "ProofParseError"
    ELSE IF commitment # extract_commitment_from_pi(public_inputs) THEN "GuessWordMismatch"
    ELSE IF ~proof_bytes.verifies THEN "VerificationFailed"
    ELSE "Ok"

\* ------------------------------------------------------------ call outcomes

\* A call that returns Err(e), or traps ("HostError"): nothing it wrote is kept.
Fail(e) == [err |-> e]

\* A call that returns Err after it has written: `written` is the game's temporary
\* entries as the call left them when it returned.
FailAfter(e, written) == [err |-> e, written |-> written]

\* A call that returns Ok: the game's new temporary entries, the token transfers and
\* hub calls it made, and the value it returned (withdraw's payout).
Done(t, xfer, calls, payout) == [err |-> "Ok", t |-> t, xfer |-> xfer, calls |-> calls, payout |-> payout]

\* token::TokenClient::new(env, token).transfer(from, to, amount)
Transfer(token, from, to, amount) == [token |-> token, from |-> from, to |-> to, amount |-> amount]

Contract == "contract"

\* ------------------------------------------------------ session key resolution

ResolveNothing(game_id, caller) == caller

ResolveIgnoringGame(game_id, caller) ==
    IF caller \in DOMAIN session_reverse THEN session_reverse[caller][2] ELSE caller

\* resolve_caller_simple, after caller.require_auth() has passed.
resolve_caller_simple(game_id, caller) ==
    IF caller \in DOMAIN session_reverse /\ session_reverse[caller][1] = game_id
    THEN session_reverse[caller][2]
    ELSE caller

\* ------------------------------------------------------------------ game hub

call_start_game(game_id, player1, player2) ==
    [fn |-> "start_game", session_id |-> GetOr(temporary[game_id], "gm_sid", 0), player1 |-> player1, player2 |-> player2]

call_end_game(game_id, player1_won) ==
    [fn |-> "end_game", session_id |-> GetOr(temporary[game_id], "gm_sid", 0), player1_won |-> player1_won]

\* -------------------------------------------------------------- create / join

CreateGameOverwrites(game_id, player1, commitment1, token_addr, amount, wc_public_inputs, wc_proof_bytes) ==
    LET t == temporary[game_id]
        wc == do_verify_word_commit(commitment1, wc_public_inputs, wc_proof_bytes)
    IN  IF wc # "Ok" THEN Fail(wc)
        ELSE Done(Set(Set(Set(Set(Set(Set(t, "gm_phase", PHASE_WAITING), "gm_p1", player1), "gm_c1", commitment1),
                    "es_token", token_addr), "es_amt", amount), "gm_sid", game_count),
                  IF amount > 0 THEN <<Transfer(token_addr, player1, Contract, amount)>> ELSE <<>>,
                  <<>>, 0)

\* create_game, after player1.require_auth(); the registry writes are in CreateGame.
create_game(game_id, player1, commitment1, token_addr, amount, wc_public_inputs, wc_proof_bytes) ==
    LET t == temporary[game_id]
        wc == do_verify_word_commit(commitment1, wc_public_inputs, wc_proof_bytes)
    IN  IF wc # "Ok" THEN Fail(wc)
        ELSE IF Has(t, "gm_phase") THEN Fail("GameAlreadyExists")
        ELSE Done(Set(Set(Set(Set(Set(Set(t, "gm_phase", PHASE_WAITING), "gm_p1", player1), "gm_c1", commitment1),
                    "es_token", token_addr), "es_amt", amount), "gm_sid", game_count),
                  IF amount > 0 THEN <<Transfer(token_addr, player1, Contract, amount)>> ELSE <<>>,
                  <<>>, 0)

JoinGameAnyPhase(game_id, player2, commitment2, wc_public_inputs, wc_proof_bytes) ==
    LET t == temporary[game_id]
        amount == GetOr(t, "es_amt", 0)
    IN  IF ~Has(t, "gm_phase") THEN Fail("NoActiveGame")
        ELSE Done(Set(Set(Set(Set(Set(Set(Set(t, "gm_p2", player2), "gm_c2", commitment2),
                    "gm_phase", PHASE_ACTIVE), "gm_turn", 1), "p1_time", TURN_DURATION_SECS),
                    "p2_time", TURN_DURATION_SECS), "gm_dead", now + TURN_DURATION_SECS),
                  IF amount > 0 THEN <<Transfer(t.es_token, player2, Contract, amount)>> ELSE <<>>,
                  <<call_start_game(game_id, t.gm_p1, player2)>>, 0)

\* The amount join_game escrows: the creator's stored terms (lib.rs 432..434).
JoinAmountIsFixedFee(t) == Stake

join_amount(t) == GetOr(t, "es_amt", 0)

\* The transfer join_game makes on the game record t (lib.rs 432..444).
join_transfer(t, player2) ==
    IF join_amount(t) > 0 THEN <<Transfer(t.es_token, player2, Contract, join_amount(t))>> ELSE <<>>

\* join_game, after player2.require_auth().
join_game(game_id, player2, commitment2, wc_public_inputs, wc_proof_bytes) ==
    LET t == temporary[game_id]
        wc == do_verify_word_commit(commitment2, wc_public_inputs, wc_proof_bytes)
        amount == join_amount(t)
    IN  IF wc # "Ok" THEN Fail(wc)
        ELSE IF ~Has(t, "gm_phase") THEN Fail("NoActiveGame")
        ELSE IF t.gm_phase # PHASE_WAITING THEN Fail("WrongPhase")
        ELSE IF amount > 0 /\ ~Has(t, "es_token") THEN Fail("NoActiveGame")
        ELSE IF ~Has(t, "gm_p1") THEN Fail("NoActiveGame")
        ELSE Done(Set(Set(Set(Set(Set(Set(Set(t, "gm_p2", player2), "gm_c2", commitment2),
                    "gm_phase", PHASE_ACTIVE), "gm_turn", 1), "p1_time", TURN_DURATION_SECS),
                    "p2_time", TURN_DURATION_SECS), "gm_dead", now + TURN_DURATION_SECS),
                  join_transfer(t, player2),
                  <<call_start_game(game_id, t.gm_p1, player2)>>, 0)

\* ---------------------------------------------------------------- submit_turn

\* The results loop of submit_turn (lib.rs 633..642): the five feedback codes.
extract_results(public_inputs) == [i \in 1..5 |-> public_inputs.results[i]]

all_correct(results) == \A i \in 1..5 : results[i] = 2

\* Turn 1 (lib.rs 569..592): guess only.
submit_turn_first(t, my_guess_word, path_elements, path_indices) ==
    LET vg == do_verify_guess(my_guess_word, path_elements, path_indices)
        p1_remaining == TURN_DURATION_SECS - (now - (t.gm_dead - TURN_DURATION_SECS))
        p2_remaining == GetOr(t, "p2_time", TURN_DURATION_SECS)
    IN  IF vg # "Ok" THEN Fail(vg)
        ELSE Done(Set(Set(Set(Set(t, "gm_guess", my_guess_word), "gm_turn", 2),
                    "p1_time", p1_remaining), "gm_dead", now + p2_remaining),
                  <<>>, <<>>, 0)

\* The winner an all-correct result declares (lib.rs 650..658).
SubmitWinnerIsCaller(actual_caller, opponent) == actual_caller

submit_winner(actual_caller, opponent) == opponent

\* The turn an accepted move on turn >= 2 advances to (lib.rs 685).
NextTurnSkipsOne(turn) == turn + 2

next_turn(turn) == turn + 1

\* The verify-only turn (lib.rs 661).
VerifyOnlyAfterMaxTurns(turn) == turn > MAX_TURNS

is_verify_only(turn) == turn = MAX_TURNS

\* Turns 2.. after the proof verified (lib.rs 632..710).
submit_turn_judged(game_id, t, turn, actual_caller, opponent, my_guess_word, path_elements, path_indices, public_inputs) ==
    LET results == extract_results(public_inputs)
        t1 == Set(t, "gm_res", results)
        vg == do_verify_guess(my_guess_word, path_elements, path_indices)
        caller_is_p1 == actual_caller = t.gm_p1
        my_time_key == IF caller_is_p1 THEN "p1_time" ELSE "p2_time"
        opponent_time_key == IF opponent = t.gm_p1 THEN "p1_time" ELSE "p2_time"
        my_remaining == IF t.gm_dead >= now THEN t.gm_dead - now ELSE 0
        t2 == Set(Set(Set(t1, "gm_guess", my_guess_word), "gm_turn", next_turn(turn)), my_time_key, my_remaining)
        opponent_remaining == GetOr(t2, opponent_time_key, TURN_DURATION_SECS)
    IN  IF all_correct(results)
        THEN Done(Set(Set(t1, "gm_phase", PHASE_REVEAL), "gm_win", submit_winner(actual_caller, opponent)), <<>>, <<>>, 0)
        ELSE IF is_verify_only(turn)
        THEN Done(Set(Set(Set(t1, "gm_phase", PHASE_DRAW), "p1_rev", FALSE), "p2_rev", FALSE),
                  <<>>, <<call_end_game(game_id, FALSE)>>, 0)
        ELSE IF vg # "Ok" THEN FailAfter(vg, t1)
        ELSE Done(Set(t2, "gm_dead", now + opponent_remaining), <<>>, <<>>, 0)

\* The deadline check of submit_turn (lib.rs 530): TRUE when the move comes too late.
SubmitNeverExpires(t) == FALSE

submit_expired(t) == now > t.gm_dead

\* The player whose turn it is (lib.rs 557).
ExpectedPlayerAlwaysP1(t, turn) == t.gm_p1

expected_player(t, turn) == IF turn % 2 = 1 THEN t.gm_p1 ELSE t.gm_p2

\* submit_turn, after resolve_caller_simple.
submit_turn(game_id, actual_caller, my_guess_word, path_elements, path_indices, public_inputs, proof_bytes) ==
    LET t == temporary[game_id] IN
    IF ~Has(t, "gm_phase") THEN Fail("NoActiveGame")
    ELSE IF t.gm_phase # PHASE_ACTIVE THEN Fail("WrongPhase")
    ELSE IF ~Has(t, "gm_dead") THEN Fail("NoActiveGame")
    ELSE IF submit_expired(t) THEN Fail("GameExpired")
    ELSE IF ~Has(t, "gm_turn") \/ ~Has(t, "gm_p1") \/ ~Has(t, "gm_p2") THEN Fail("NoActiveGame")
    ELSE IF actual_caller # expected_player(t, t.gm_turn) THEN Fail("NotYourTurn")
    ELSE LET turn == t.gm_turn
             opponent == IF actual_caller = t.gm_p1 THEN t.gm_p2 ELSE t.gm_p1
             my_commitment_key == IF actual_caller = t.gm_p1 THEN "gm_c1" ELSE "gm_c2"
         IN  IF turn = 1 THEN submit_turn_first(t, my_guess_word, path_elements, path_indices)
             ELSE IF ~Has(t, my_commitment_key) \/ ~Has(t, "gm_guess") THEN Fail("NoActiveGame")
             ELSE IF t[my_commitment_key] # extract_commitment_from_pi(public_inputs) THEN Fail("GuessWordMismatch")
             ELSE IF ~pi_letters_match(public_inputs, t.gm_guess) THEN Fail("GuessWordMismatch")
             ELSE LET vp == do_verify_proof(public_inputs, proof_bytes) IN
                  IF vp # "Ok" THEN Fail(vp)
                  ELSE submit_turn_judged(game_id, t, turn, actual_caller, opponent, my_guess_word, path_elements, path_indices, public_inputs)

\* --------------------------------------------------------------------- reveal

\* reveal_word, after resolve_caller_simple.
reveal_word(game_id, actual_caller, reveal, public_inputs, proof_bytes) ==
    LET t == temporary[game_id] IN
    IF ~Has(t, "gm_phase") THEN Fail("NoActiveGame")
    ELSE IF t.gm_phase # PHASE_REVEAL THEN Fail("WrongPhase")
    ELSE IF ~Has(t, "gm_win") THEN Fail("NoActiveGame")
    ELSE IF actual_caller # t.gm_win THEN Fail("NotWinner")
    ELSE IF ~Has(t, "gm_p1") THEN Fail("NoActiveGame")
    ELSE LET is_p1 == actual_caller = t.gm_p1
             commitment_key == IF is_p1 THEN "gm_c1" ELSE "gm_c2"
             word_key == IF is_p1 THEN "p1_word" ELSE "p2_word"
         IN  IF ~Has(t, commitment_key) THEN Fail("NoActiveGame")
             ELSE LET vr == do_verify_reveal(t[commitment_key], reveal, public_inputs, proof_bytes) IN
                  IF vr # "Ok" THEN Fail(vr)
                  ELSE Done(Set(Set(t, word_key, reveal), "gm_phase", PHASE_FINALIZED),
                            <<>>, <<call_end_game(game_id, is_p1)>>, 0)

\* The already-revealed check of reveal_word_draw (lib.rs 837..845).
DrawNeverRevealed(t, rev_key) == FALSE

draw_already_revealed(t, rev_key) == GetOr(t, rev_key, FALSE)

\* reveal_word_draw, after resolve_caller_simple.
reveal_word_draw(game_id, actual_caller, reveal, public_inputs, proof_bytes) ==
    LET t == temporary[game_id] IN
    IF ~Has(t, "gm_phase") THEN Fail("NoActiveGame")
    ELSE IF t.gm_phase # PHASE_DRAW THEN Fail("WrongPhase")
    ELSE IF ~Has(t, "gm_p1") \/ ~Has(t, "gm_p2") THEN Fail("NoActiveGame")
    ELSE LET is_p1 == actual_caller = t.gm_p1
             is_p2 == actual_caller = t.gm_p2
             rev_key == IF is_p1 THEN "p1_rev" ELSE "p2_rev"
             commitment_key == IF is_p1 THEN "gm_c1" ELSE "gm_c2"
             word_key == IF is_p1 THEN "p1_word" ELSE "p2_word"
         IN  IF ~is_p1 /\ ~is_p2 THEN Fail("WrongPlayer")
             ELSE IF draw_already_revealed(t, rev_key) THEN Fail("AlreadyWithdrawn")
             ELSE IF ~Has(t, commitment_key) THEN Fail("NoActiveGame")
             ELSE LET vr == do_verify_reveal(t[commitment_key], reveal, public_inputs, proof_bytes) IN
                  IF vr # "Ok" THEN Fail(vr)
                  ELSE Done(Set(Set(t, rev_key, TRUE), word_key, reveal), <<>>, <<>>, 0)

\* --------------------------------------------------------------------- resign

\* The winner resign stores (lib.rs 916..923): the other player.
ResignWinnerIsCaller(t, caller_is_p1) == IF caller_is_p1 THEN t.gm_p1 ELSE t.gm_p2

resign_opponent(t, caller_is_p1) == IF caller_is_p1 THEN t.gm_p2 ELSE t.gm_p1

\* resign, after resolve_caller_simple.
resign(game_id, actual_caller) ==
    LET t == temporary[game_id] IN
    IF ~Has(t, "gm_phase") THEN Fail("NoActiveGame")
    ELSE IF t.gm_phase # PHASE_ACTIVE THEN Fail("WrongPhase")
    ELSE IF ~Has(t, "gm_p1") \/ ~Has(t, "gm_p2") THEN Fail("NoActiveGame")
    ELSE LET caller_is_p1 == actual_caller = t.gm_p1 IN
         IF ~caller_is_p1 /\ actual_caller # t.gm_p2 THEN Fail("WrongPlayer")
         ELSE Done(Set(Set(t, "gm_win", resign_opponent(t, caller_is_p1)), "gm_phase", PHASE_FINALIZED),
                   <<>>, <<call_end_game(game_id, ~caller_is_p1)>>, 0)

\* -------------------------------------------------------------- claim_timeout

\* The deadline check of claim_timeout (lib.rs 969): TRUE when it is too early.
TimeoutTooEarlyStrict(t) == now < t.gm_dead

timeout_too_early(t) == now <= t.gm_dead

\* The caller check of claim_timeout (lib.rs 994..999): TRUE when the caller is refused.
timeout_caller_refused(t, actual_caller) ==
    actual_caller = (IF t.gm_turn % 2 = 1 THEN t.gm_p1 ELSE t.gm_p2)

\* claim_timeout, after resolve_caller_simple.
claim_timeout(game_id, actual_caller, reveal, public_inputs, proof_bytes) ==
    LET t == temporary[game_id] IN
    IF ~Has(t, "gm_phase") THEN Fail("NoActiveGame")
    ELSE IF t.gm_phase # PHASE_ACTIVE THEN Fail("WrongPhase")
    ELSE IF ~Has(t, "gm_dead") THEN Fail("NoActiveGame")
    ELSE IF timeout_too_early(t) THEN Fail("WrongPhase")
    ELSE IF ~Has(t, "gm_p1") \/ ~Has(t, "gm_p2") \/ ~Has(t, "gm_turn") THEN Fail("NoActiveGame")
    ELSE IF timeout_caller_refused(t, actual_caller) THEN Fail("WrongPlayer")
    ELSE LET is_p1 == actual_caller = t.gm_p1
             commitment_key == IF is_p1 THEN "gm_c1" ELSE "gm_c2"
             word_key == IF is_p1 THEN "p1_word" ELSE "p2_word"
         IN  IF ~Has(t, commitment_key) THEN Fail("NoActiveGame")
             ELSE LET vr == do_verify_reveal(t[commitment_key], reveal, public_inputs, proof_bytes) IN
                  IF vr # "Ok" THEN Fail(vr)
                  ELSE Done(Set(Set(Set(t, word_key, reveal), "gm_win", actual_caller), "gm_phase", PHASE_FINALIZED),
                            <<>>, <<call_end_game(game_id, is_p1)>>, 0)

\* ------------------------------------------------------------------- withdraw

\* The payout of withdraw (lib.rs 1117, 1129).
WithdrawPayoutAlwaysPot(phase, escrow_per_player) == escrow_per_player * 2

WithdrawPayoutAlwaysStake(phase, escrow_per_player) == escrow_per_player

withdraw_payout(phase, escrow_per_player) ==
    IF phase = PHASE_FINALIZED THEN escrow_per_player * 2 ELSE escrow_per_player

\* The withdrawn guard written at the end of withdraw (lib.rs 1139).
WithdrawGuardNotSet(t, wd_key) == t

withdraw_mark(t, wd_key) == Set(t, wd_key, TRUE)

\* The draw-phase reveal gate of withdraw (lib.rs 1125..1128): TRUE when refused.
WithdrawDrawUngated(t, rev_key) == FALSE

withdraw_draw_refused(t, rev_key) == ~GetOr(t, rev_key, FALSE)

\* The winner gate of withdraw (lib.rs 1114): TRUE when refused.
WithdrawWinnerUngated(t, actual_caller) == FALSE

withdraw_not_winner(t, actual_caller) == actual_caller # t.gm_win

\* withdraw, after resolve_caller_simple.
withdraw(game_id, actual_caller) ==
    LET t == temporary[game_id] IN
    IF ~Has(t, "gm_phase") THEN Fail("NoActiveGame")
    ELSE IF t.gm_phase # PHASE_FINALIZED /\ t.gm_phase # PHASE_DRAW THEN Fail("WrongPhase")
    ELSE IF ~Has(t, "gm_p1") \/ ~Has(t, "gm_p2") THEN Fail("NoActiveGame")
    ELSE LET is_p1 == actual_caller = t.gm_p1
             is_p2 == actual_caller = t.gm_p2
             wd_key == IF is_p1 THEN "p1_wd" ELSE "p2_wd"
             rev_key == IF is_p1 THEN "p1_rev" ELSE "p2_rev"
             escrow_per_player == GetOr(t, "es_amt", 0)
             payout == withdraw_payout(t.gm_phase, escrow_per_player)
         IN  IF ~is_p1 /\ ~is_p2 THEN Fail("WrongPlayer")
             ELSE IF GetOr(t, wd_key, FALSE) THEN Fail("AlreadyWithdrawn")
             ELSE IF ~Has(t, "es_token") THEN Fail("NoActiveGame")
             ELSE IF t.gm_phase = PHASE_FINALIZED /\ ~Has(t, "gm_win") THEN Fail("NoActiveGame")
             ELSE IF t.gm_phase = PHASE_FINALIZED /\ withdraw_not_winner(t, actual_caller) THEN Fail("NotWinner")
             ELSE IF t.gm_phase # PHASE_FINALIZED /\ withdraw_draw_refused(t, rev_key) THEN Fail("InvalidReveal")
             ELSE Done(withdraw_mark(t, wd_key),
                       IF payout > 0 THEN <<Transfer(t.es_token, Contract, actual_caller, payout)>> ELSE <<>>,
                       <<>>, payout)

\* ------------------------------------------------------- register_session_key

\* register_session_key, after session_key.require_auth(): TRUE when the player is
\* player1 or player2 of the game (lib.rs 362..379).
is_player_of(game_id, player) ==
    \/ (Has(temporary[game_id], "gm_p1") /\ temporary[game_id].gm_p1 = player)
    \/ (Has(temporary[game_id], "gm_p2") /\ temporary[game_id].gm_p2 = player)

\* The identities whose authorization register_session_key requires (lib.rs 356:
\* session_key.require_auth(), and no other require_auth).
register_session_key_auth(game_id, player, key) == {key}

\* --------------------------------------------------------------- call inputs

\* proof_bytes: its length, and the external verifier's verdict on it.
Proofs ==
    {[len |-> PROOF_BYTES, verifies |-> TRUE],
     [len |-> PROOF_BYTES, verifies |-> FALSE],
     [len |-> "PROOF_BYTES-1", verifies |-> TRUE]}

OtherRoot == poseidon2_hash(leaf_value(zzzzz), leaf_value(zzzzz))

WcPublicInputs == {[commitment |-> c, root |-> r] : c \in Commitments, r \in {MERKLE_ROOT, OtherRoot}}

PublicInputs ==
    {[commitment |-> c, letters |-> w, results |-> r] :
        c \in Commitments, w \in {apple, grape}, r \in {AllCorrect, NotAllCorrect}}

\* (guess word, path elements, path indices)
GuessInputs ==
    {<<apple, PathElements(1), PathIndices(1)>>,
     <<grape, PathElements(2), PathIndices(2)>>,
     <<zzzzz, PathElements(1), PathIndices(1)>>,
     <<app, <<>>, <<>>>>}

RevealWords == {apple, app}

\* -------------------------------------------------------------------- actions

Ret(op, game_id, caller, actual, err, payout, xfer) ==
    [op |-> op, game |-> game_id, caller |-> caller, actual |-> actual, err |-> err, payout |-> payout, xfer |-> xfer]

\* The contract's balance of `token` after the transfers `xfer` (at most one per call).
BalanceAfter(xfer) ==
    IF xfer = <<>> THEN balance
    ELSE [balance EXCEPT ![xfer[1].token] = IF xfer[1].to = Contract THEN @ + xfer[1].amount ELSE @ - xfer[1].amount]

\* A transfer out of the contract traps when the contract does not hold the amount.
Uncovered(xfer) == xfer # <<>> /\ xfer[1].from = Contract /\ balance[xfer[1].token] < xfer[1].amount

\* What the host leaves in a game's temporary entries when a call on it returned Err
\* with outcome r: the entries as they were before the call.
HostKeepsWrites(before, r) == IF "written" \in DOMAIN r THEN r.written ELSE before

host_rollback(before, r) == before

\* The host's commit-or-roll-back of one call on game `game_id` with outcome r.
Commit(op, game_id, caller, actual, r) ==
    IF r.err # "Ok"
    THEN /\ temporary' = [temporary EXCEPT ![game_id] = host_rollback(@, r)]
         /\ UNCHANGED <<balance, escrow_in, escrow_out, hub, ret>>
    ELSE IF Uncovered(r.xfer)
    THEN UNCHANGED <<temporary, balance, escrow_in, escrow_out, hub, ret>>
    ELSE /\ ret' = Ret(op, game_id, caller, actual, "Ok", r.payout, r.xfer)
         /\ temporary' = [temporary EXCEPT ![game_id] = r.t]
         /\ balance' = BalanceAfter(r.xfer)
         /\ escrow_in' = [escrow_in EXCEPT ![game_id] = IF r.xfer # <<>> /\ r.xfer[1].to = Contract THEN @ + r.xfer[1].amount ELSE @]
         /\ escrow_out' = [escrow_out EXCEPT ![game_id] = IF r.xfer # <<>> /\ r.xfer[1].from = Contract THEN @ + r.xfer[1].amount ELSE @]
         /\ hub' = hub \o r.calls

\* Errors a call returns whatever its word, path, public inputs and proof are: they
\* depend on the storage, the clock and the caller alone.  A call the storage refuses
\* this way is a step that changes nothing, so the actions below enumerate the
\* remaining inputs only for calls that are admitted (Probe* are the inputs that pass
\* every check made on the inputs themselves).
GateErrors ==
    {"NoActiveGame", "WrongPhase", "GameExpired", "NotYourTurn", "WrongPlayer", "NotWinner",
     "AlreadyWithdrawn", "GameAlreadyExists"}

Admitted(r) == r.err \notin GateErrors

ProbeProof == [len |-> PROOF_BYTES, verifies |-> TRUE]

ProbeWcPI(c) == [commitment |-> c, root |-> MERKLE_ROOT]

\* create_game on a game id of `ids` by a creator of `creators`.
CreateGameIn(ids, creators) ==
    \E game_id \in ids, player1 \in creators, commitment1 \in CreatorCommitments, token_addr \in Tokens, amount \in Amounts :
        /\ Admitted(create_game(game_id, player1, commitment1, token_addr, amount, ProbeWcPI(commitment1), ProbeProof))
        /\ \E wc_public_inputs \in WcPublicInputs, wc_proof_bytes \in Proofs :
            LET r == create_game(game_id, player1, commitment1, token_addr, amount, wc_public_inputs, wc_proof_bytes)
                ok == r.err = "Ok"
            IN  /\ Commit("create_game", game_id, player1, player1, r)
                /\ game_at' = IF ok THEN Set(game_at, game_count, game_id) ELSE game_at
                /\ game_creator' = IF ok THEN Set(game_creator, game_id, player1) ELSE game_creator
                /\ game_count' = IF ok THEN game_count + 1 ELSE game_count
                /\ UNCHANGED <<session_key, session_reverse, now, regs>>

CreateGame == CreateGameIn(GameIds, Creators)

\* join_game on a game id of `ids`.
JoinGameIn(ids) ==
    \E game_id \in ids, player2 \in Joiners, commitment2 \in Commitments :
        /\ Admitted(join_game(game_id, player2, commitment2, ProbeWcPI(commitment2), ProbeProof))
        /\ \E wc_public_inputs \in WcPublicInputs, wc_proof_bytes \in Proofs :
            /\ Commit("join_game", game_id, player2, player2,
                      join_game(game_id, player2, commitment2, wc_public_inputs, wc_proof_bytes))
            /\ UNCHANGED <<session_key, session_reverse, game_count, game_at, game_creator, now, regs>>

JoinGame == JoinGameIn(GameIds)

SubmitTurn ==
    \E game_id \in GameIds, caller \in Addr :
        LET actual_caller == resolve_caller_simple(game_id, caller) IN
        /\ Admitted(submit_turn(game_id, actual_caller, EmptyBytes, <<>>, <<>>, EmptyPI, ProbeProof))
        /\ \E guess \in GuessInputs, public_inputs \in PublicInputs, proof_bytes \in Proofs :
            /\ Commit("submit_turn", game_id, caller, actual_caller,
                      submit_turn(game_id, actual_caller, guess[1], guess[2], guess[3], public_inputs, proof_bytes))
            /\ UNCHANGED <<session_key, session_reverse, game_count, game_at, game_creator, now, regs>>

RevealWord ==
    \E game_id \in GameIds, caller \in Addr :
        LET actual_caller == resolve_caller_simple(game_id, caller) IN
        /\ Admitted(reveal_word(game_id, actual_caller, EmptyBytes, EmptyPI, ProbeProof))
        /\ \E reveal \in RevealWords, public_inputs \in PublicInputs, proof_bytes \in Proofs :
            /\ Commit("reveal_word", game_id, caller, actual_caller,
                      reveal_word(game_id, actual_caller, reveal, public_inputs, proof_bytes))
            /\ UNCHANGED <<session_key, session_reverse, game_count, game_at, game_creator, now, regs>>

RevealWordDraw ==
    \E game_id \in GameIds, caller \in Addr :
        LET actual_caller == resolve_caller_simple(game_id, caller) IN
        /\ Admitted(reveal_word_draw(game_id, actual_caller, EmptyBytes, EmptyPI, ProbeProof))
        /\ \E reveal \in RevealWords, public_inputs \in PublicInputs, proof_bytes \in Proofs :
            /\ Commit("reveal_word_draw", game_id, caller, actual_caller,
                      reveal_word_draw(game_id, actual_caller, reveal, public_inputs, proof_bytes))
            /\ UNCHANGED <<session_key, session_reverse, game_count, game_at, game_creator, now, regs>>

Resign ==
    \E game_id \in GameIds, caller \in Addr :
        LET actual_caller == resolve_caller_simple(game_id, caller) IN
        /\ Commit("resign", game_id, caller, actual_caller, resign(game_id, actual_caller))
        /\ UNCHANGED <<session_key, session_reverse, game_count, game_at, game_creator, now, regs>>

ClaimTimeout ==
    \E game_id \in GameIds, caller \in Addr :
        LET actual_caller == resolve_caller_simple(game_id, caller) IN
        /\ Admitted(claim_timeout(game_id, actual_caller, EmptyBytes, EmptyPI, ProbeProof))
        /\ \E reveal \in RevealWords, public_inputs \in PublicInputs, proof_bytes \in Proofs :
            /\ Commit("claim_timeout", game_id, caller, actual_caller,
                      claim_timeout(game_id, actual_caller, reveal, public_inputs, proof_bytes))
            /\ UNCHANGED <<session_key, session_reverse, game_count, game_at, game_creator, now, regs>>

Withdraw ==
    \E game_id \in GameIds, caller \in Addr :
        LET actual_caller == resolve_caller_simple(game_id, caller) IN
        /\ Commit("withdraw", game_id, caller, actual_caller, withdraw(game_id, actual_caller))
        /\ UNCHANGED <<session_key, session_reverse, game_count, game_at, game_creator, now, regs>>

\* register_session_key(game_id, player, session_key), authorized by session_key, for
\* a key of `keys` and at most max_regs calls.
RegisterSessionKeyIn(keys, max_regs) ==
    \E game_id \in GameIds, player \in Addr, key \in keys :
        /\ regs < max_regs
        /\ IF ~is_player_of(game_id, player)
           THEN UNCHANGED <<session_key, session_reverse, regs, ret>>
           ELSE /\ ret' = Ret("register_session_key", game_id, key, player, "Ok", 0, <<>>)
                /\ session_key' = Set(session_key, <<game_id, player>>, key)
                /\ session_reverse' = Set(session_reverse, key, <<game_id, player>>)
                /\ regs' = regs + 1
        /\ UNCHANGED <<temporary, game_count, game_at, game_creator, now, balance, escrow_in, escrow_out, hub>>

RegisterSessionKey == RegisterSessionKeyIn(SessionKeys, MaxRegs)

\* The ledger closes: time passes.
\* Only join_game, submit_turn and claim_timeout read the clock, and join_game only to
\* set a deadline relative to it: time is let pass while a game is ACTIVE.
Tick ==
    /\ \E g \in GameIds : GetOr(temporary[g], "gm_phase", 255) = PHASE_ACTIVE
    /\ now + TickSecs <= MaxTime
    /\ now' = now + TickSecs
    /\ ret' = Ret("tick", "-", "-", "-", "Ok", 0, <<>>)
    /\ UNCHANGED <<storage, regs>>

Init ==
    /\ temporary = [g \in GameIds |-> <<>>]
    /\ session_key = <<>>
    /\ session_reverse = <<>>
    /\ game_count = 0
    /\ game_at = <<>>
    /\ game_creator = <<>>
    /\ now = 0
    /\ balance = [k \in Tokens |-> 0]
    /\ escrow_in = [g \in GameIds |-> 0]
    /\ escrow_out = [g \in GameIds |-> 0]
    /\ hub = <<>>
    /\ regs = 0
    /\ ret = Ret("init", "-", "-", "-", "Ok", 0, <<>>)

Next ==
    \/ CreateGame
    \/ JoinGame
    \/ SubmitTurn
    \/ RevealWord
    \/ RevealWordDraw
    \/ Resign
    \/ ClaimTimeout
    \/ Withdraw
    \/ RegisterSessionKey
    \/ Tick

Spec == Init /\ [][Next]_vars

\* ------------------------------------------------------- reading the storage

\* get_game_phase: 255 when the game does not exist.
Phase(g) == GetOr(temporary[g], "gm_phase", 255)

Joined(g) == Phase(g) \in {PHASE_ACTIVE, PHASE_REVEAL, PHASE_FINALIZED, PHASE_DRAW}

Player1(g) == temporary[g].gm_p1

Player2(g) == temporary[g].gm_p2

Turn(g) == temporary[g].gm_turn

Deadline(g) == temporary[g].gm_dead

\* The player whose turn it is, and the other one, by turn parity.
ToMove(g) == IF Turn(g) % 2 = 1 THEN Player1(g) ELSE Player2(g)

NotToMove(g) == IF Turn(g) % 2 = 1 THEN Player2(g) ELSE Player1(g)

OpponentOf(g, a) == IF a = Player1(g) THEN Player2(g) ELSE Player1(g)

\* The stored commitment of player a (player1's when a is both players).
CommitmentOf(g, a) == IF a = Player1(g) THEN temporary[g].gm_c1 ELSE temporary[g].gm_c2

Withdrawn(g, key) == GetOr(temporary[g], key, FALSE)

\* A self-reveal of `word` by the holder of commitment c: the public inputs embed c,
\* their letters are the word, every feedback code is 2, and the proof verifies.
SelfReveal(c, word, public_inputs, proof_bytes) ==
    /\ public_inputs.commitment = c
    /\ Len(word) = 5
    /\ public_inputs.letters = word
    /\ public_inputs.results = AllCorrect
    /\ proof_bytes.len = PROOF_BYTES
    /\ proof_bytes.verifies

\* --------------------------------------------------------------------- claims

\* C1: a game's phase changes only along WAITING->ACTIVE (join_game), ACTIVE->REVEAL
\* (a submit_turn whose stored result is all-correct), ACTIVE->DRAW (a submit_turn on
\* turn 13 whose stored result is not all-correct), ACTIVE->FINALIZED (resign,
\* claim_timeout) and REVEAL->FINALIZED (reveal_word by the stored winner); a game
\* that does not exist can only become WAITING (create_game).  So no step moves a game
\* to an earlier phase and none leaves FINALIZED or DRAW.
C1_PhaseEdges ==
    [][\A g \in GameIds :
        Phase(g)' # Phase(g) =>
            \/ Phase(g) = 255 /\ Phase(g)' = PHASE_WAITING /\ ret'.op = "create_game"
            \/ Phase(g) = PHASE_WAITING /\ Phase(g)' = PHASE_ACTIVE /\ ret'.op = "join_game"
            \/ /\ Phase(g) = PHASE_ACTIVE /\ Phase(g)' = PHASE_REVEAL /\ ret'.op = "submit_turn"
               /\ all_correct(temporary'[g].gm_res)
            \/ /\ Phase(g) = PHASE_ACTIVE /\ Phase(g)' = PHASE_DRAW /\ ret'.op = "submit_turn"
               /\ Turn(g) = MAX_TURNS /\ ~all_correct(temporary'[g].gm_res)
            \/ Phase(g) = PHASE_ACTIVE /\ Phase(g)' = PHASE_FINALIZED /\ ret'.op \in {"resign", "claim_timeout"}
            \/ /\ Phase(g) = PHASE_REVEAL /\ Phase(g)' = PHASE_FINALIZED /\ ret'.op = "reveal_word"
               /\ ret'.actual = temporary[g].gm_win
    ]_vars

\* C1 witness: a game that went all the way to FINALIZED through REVEAL.
C1_Witness ==
    \E g \in GameIds : Phase(g) = PHASE_FINALIZED /\ ret.op = "reveal_word" /\ ret.game = g

\* C2: in an ACTIVE game before its deadline, submit_turn returns Ok only for a caller
\* resolved to player1 on an odd turn or to player2 on an even turn, and every other
\* resolved caller gets NotYourTurn; and every step that submit_turn commits is made
\* by the player the parity names (so the refused calls changed nothing).
C2_TurnParity ==
    /\ [](\A g \in GameIds :
            (Phase(g) = PHASE_ACTIVE /\ now <= Deadline(g)) =>
                \A caller \in Addr, guess \in GuessInputs, public_inputs \in PublicInputs, proof_bytes \in Proofs :
                    LET a == resolve_caller_simple(g, caller)
                        r == submit_turn(g, a, guess[1], guess[2], guess[3], public_inputs, proof_bytes)
                        in_turn == \/ (a = Player1(g) /\ Turn(g) % 2 = 1)
                                   \/ (a = Player2(g) /\ Turn(g) % 2 = 0)
                    IN  /\ r.err = "Ok" => in_turn
                        /\ ~in_turn => r.err = "NotYourTurn")
    /\ [][\A g \in GameIds :
            (ret'.op = "submit_turn" /\ ret'.game = g) =>
                \/ (ret'.actual = Player1(g) /\ Turn(g) % 2 = 1)
                \/ (ret'.actual = Player2(g) /\ Turn(g) % 2 = 0)
       ]_vars

\* C2 witness: player2 made an even-turn move, and a player out of turn is there to be
\* refused.
C2_Witness ==
    \E g \in GameIds :
        /\ Phase(g) = PHASE_ACTIVE /\ now <= Deadline(g) /\ Turn(g) = 3
        /\ ret.op = "submit_turn" /\ ret.actual = Player2(g) /\ Player1(g) # Player2(g)
        /\ submit_turn(g, Player2(g), apple, PathElements(1), PathIndices(1), EmptyPI, ProbeProof).err = "NotYourTurn"

\* C3: a submit_turn on turn >= 2 that returns Ok on public inputs whose five feedback
\* codes are all 2 sets the winner to the caller's opponent and the phase to REVEAL,
\* stores the five codes, and leaves turn, deadline, both remaining times and
\* last_guess as they were.
C3_AllCorrectEndsInReveal ==
    \A g \in GameIds :
        (Phase(g) = PHASE_ACTIVE /\ Turn(g) >= 2) =>
            \A caller \in Addr, guess \in GuessInputs, public_inputs \in PublicInputs, proof_bytes \in Proofs :
                LET a == resolve_caller_simple(g, caller)
                    t == temporary[g]
                    r == submit_turn(g, a, guess[1], guess[2], guess[3], public_inputs, proof_bytes)
                IN  (r.err = "Ok" /\ public_inputs.results = AllCorrect) =>
                        /\ r.t.gm_win = OpponentOf(g, a)
                        /\ r.t.gm_phase = PHASE_REVEAL
                        /\ r.t.gm_res = AllCorrect
                        /\ r.t.gm_turn = t.gm_turn
                        /\ r.t.gm_dead = t.gm_dead
                        /\ r.t.p1_time = t.p1_time
                        /\ r.t.p2_time = t.p2_time
                        /\ r.t.gm_guess = t.gm_guess
                        /\ r.xfer = <<>> /\ r.calls = <<>>

\* C3 witness: player1 judged player2's guess all-correct on turn 3, so player2 won.
C3_Witness ==
    \E g \in GameIds :
        /\ Phase(g) = PHASE_REVEAL /\ ret.op = "submit_turn" /\ Turn(g) = 3
        /\ Player1(g) # Player2(g) /\ ret.actual = Player1(g)
        /\ temporary[g].gm_win = Player2(g) /\ temporary[g].gm_res = AllCorrect

\* C4 (as claimed): the happy path.  After create_game with the stake, join_game by
\* another player, player1's guess on turn 1 and player2's all-correct judgement on
\* turn 2 (the only way a result is stored while turn is still 2), the phase is REVEAL
\* and the winner player2; every self-reveal by player2 is accepted and makes the
\* phase FINALIZED; then player2's withdraw pays twice the stake and player1's
\* withdraw returns NotWinner.
C4_HappyPathWinnerPlayer2 ==
    \A g \in GameIds :
        LET t == temporary[g]
            W == Player2(g)
            L == Player1(g)
        IN
        (Joined(g) /\ Player1(g) # Player2(g) /\ t.gm_turn = 2 /\ Has(t, "gm_res") /\ t.es_amt = Stake) =>
            /\ Phase(g) \in {PHASE_REVEAL, PHASE_FINALIZED}
            /\ t.gm_win = W
            /\ Phase(g) = PHASE_REVEAL =>
                \A word \in RevealWords, public_inputs \in PublicInputs, proof_bytes \in Proofs :
                    SelfReveal(CommitmentOf(g, W), word, public_inputs, proof_bytes) =>
                        LET r == reveal_word(g, W, word, public_inputs, proof_bytes) IN
                        r.err = "Ok" /\ r.t.gm_phase = PHASE_FINALIZED /\ r.t.gm_win = W
            /\ Phase(g) = PHASE_FINALIZED =>
                /\ withdraw(g, L).err = "NotWinner"
                /\ ~Withdrawn(g, IF W = Player1(g) THEN "p1_wd" ELSE "p2_wd") =>
                    LET r == withdraw(g, W) IN
                    /\ r.err = "Ok" /\ r.payout = 2 * Stake
                    /\ r.xfer = <<Transfer(t.es_token, Contract, W, 2 * Stake)>>
                    /\ ~Uncovered(r.xfer)
                /\ Withdrawn(g, IF W = Player1(g) THEN "p1_wd" ELSE "p2_wd") => escrow_out[g] = 2 * Stake

\* C4 (amended): on the same path the winner is player1, the player whose guess was
\* judged all-correct: the phase is REVEAL with winner player1; every self-reveal by
\* player1 is accepted and makes the phase FINALIZED; then player1's withdraw pays
\* twice the stake (which the contract holds) and player2's withdraw returns NotWinner.
C4_HappyPath ==
    \A g \in GameIds :
        LET t == temporary[g]
            W == Player1(g)
            L == Player2(g)
        IN
        (Joined(g) /\ Player1(g) # Player2(g) /\ t.gm_turn = 2 /\ Has(t, "gm_res") /\ t.es_amt = Stake) =>
            /\ Phase(g) \in {PHASE_REVEAL, PHASE_FINALIZED}
            /\ t.gm_win = W
            /\ Phase(g) = PHASE_REVEAL =>
                \A word \in RevealWords, public_inputs \in PublicInputs, proof_bytes \in Proofs :
                    SelfReveal(CommitmentOf(g, W), word, public_inputs, proof_bytes) =>
                        LET r == reveal_word(g, W, word, public_inputs, proof_bytes) IN
                        r.err = "Ok" /\ r.t.gm_phase = PHASE_FINALIZED /\ r.t.gm_win = W
            /\ Phase(g) = PHASE_FINALIZED =>
                /\ withdraw(g, L).err = "NotWinner"
                /\ ~Withdrawn(g, IF W = Player1(g) THEN "p1_wd" ELSE "p2_wd") =>
                    LET r == withdraw(g, W) IN
                    /\ r.err = "Ok" /\ r.payout = 2 * Stake
                    /\ r.xfer = <<Transfer(t.es_token, Contract, W, 2 * Stake)>>
                    /\ ~Uncovered(r.xfer)
                /\ Withdrawn(g, IF W = Player1(g) THEN "p1_wd" ELSE "p2_wd") => escrow_out[g] = 2 * Stake

\* C4 witness: the happy path was walked to its end, player1 holding the pot.
C4_Witness ==
    \E g \in GameIds :
        /\ Phase(g) = PHASE_FINALIZED /\ Turn(g) = 2 /\ Has(temporary[g], "gm_res")
        /\ Has(temporary[g], "p1_word") /\ Player1(g) # Player2(g)
        /\ ret.op = "withdraw" /\ ret.actual = Player1(g) /\ ret.payout = 2 * Stake
        /\ withdraw(g, Player2(g)).err = "NotWinner"

\* C5: for every game, what withdraw has transferred out never exceeds what create_game
\* and join_game transferred in, which is at most twice the stored stake; and no
\* withdraw the contract would accept now pays more than what is left of it.
C5_PayoutWithinEscrow ==
    \A g \in GameIds :
        /\ escrow_out[g] <= escrow_in[g]
        /\ escrow_in[g] <= 2 * GetOr(temporary[g], "es_amt", 0)
        /\ \A caller \in Addr :
            LET r == withdraw(g, resolve_caller_simple(g, caller)) IN
            r.err = "Ok" => escrow_out[g] + r.payout <= escrow_in[g]

\* C5 witness: both players took their stake back after a draw: all that came in went out.
C5_Witness ==
    \E g \in GameIds :
        /\ Phase(g) = PHASE_DRAW /\ ret.op = "withdraw"
        /\ escrow_in[g] = 2 * Stake /\ escrow_out[g] = 2 * Stake

\* C6: a player's withdrawn guard never goes back to false; it becomes true only in a
\* withdraw committed by that player, and every committed withdraw sets the guard of
\* its caller; and once it is true, every withdraw by that player returns
\* AlreadyWithdrawn (and so transfers nothing).
C6_WithdrawOnce ==
    /\ [](\A g \in GameIds, caller \in Addr :
            LET a == resolve_caller_simple(g, caller) IN
            (/\ Phase(g) \in {PHASE_FINALIZED, PHASE_DRAW}
             /\ \/ (a = Player1(g) /\ Withdrawn(g, "p1_wd"))
                \/ (a = Player2(g) /\ Withdrawn(g, "p2_wd")))
            => withdraw(g, a).err = "AlreadyWithdrawn")
    /\ [][\A g \in GameIds :
            /\ \A key \in {"p1_wd", "p2_wd"} :
                /\ Withdrawn(g, key) => Withdrawn(g, key)'
                /\ (~Withdrawn(g, key) /\ Withdrawn(g, key)') =>
                    /\ ret'.op = "withdraw" /\ ret'.game = g
                    /\ ret'.actual = (IF key = "p1_wd" THEN Player1(g) ELSE Player2(g))
            /\ (ret'.op = "withdraw" /\ ret'.game = g) =>
                LET key == IF ret'.actual = Player1(g) THEN "p1_wd" ELSE "p2_wd" IN
                ~GetOr(temporary[g], key, FALSE) /\ GetOr(temporary'[g], key, FALSE)
       ]_vars

\* C6 witness: player1 has withdrawn, and withdrawing again returns AlreadyWithdrawn.
C6_Witness ==
    \E g \in GameIds :
        /\ ret.op = "withdraw" /\ ret.actual = Player1(g) /\ ret.payout = Stake
        /\ Withdrawn(g, "p1_wd")
        /\ withdraw(g, Player1(g)).err = "AlreadyWithdrawn"

\* C7: in phase FINALIZED withdraw returns Ok only to the stored winner, and then pays
\* exactly twice the stored stake, to the winner; a player who is not the winner gets
\* NotWinner.
C7_FinalizedWinnerTakesPot ==
    \A g \in GameIds :
        Phase(g) = PHASE_FINALIZED =>
            \A caller \in Addr :
                LET t == temporary[g]
                    a == resolve_caller_simple(g, caller)
                    r == withdraw(g, a)
                IN  /\ r.err = "Ok" =>
                        /\ a = t.gm_win
                        /\ r.payout = 2 * t.es_amt
                        /\ r.xfer = IF t.es_amt > 0 THEN <<Transfer(t.es_token, Contract, a, 2 * t.es_amt)>> ELSE <<>>
                    /\ (a \in {Player1(g), Player2(g)} /\ a # t.gm_win) => r.err = "NotWinner"

\* C7 witness: the winner was paid the pot and the other player is refused.
C7_Witness ==
    \E g \in GameIds :
        /\ Phase(g) = PHASE_FINALIZED /\ ret.op = "withdraw" /\ ret.payout = 2 * Stake
        /\ ret.actual = temporary[g].gm_win
        /\ withdraw(g, OpponentOf(g, ret.actual)).err = "NotWinner"

\* The reveal flag withdraw and reveal_word_draw read for player a.
Revealed(g, a) == GetOr(temporary[g], IF a = Player1(g) THEN "p1_rev" ELSE "p2_rev", FALSE)

\* C8: in phase DRAW a withdrawn guard implies the same player's reveal flag; a player
\* whose flag is not set gets InvalidReveal from withdraw, and one whose flag is set and
\* who has not withdrawn is paid exactly the stored stake; reveal_word_draw accepts only
\* a self-reveal against the caller's own commitment, and a reveal flag becomes true
\* only in a reveal_word_draw committed by that player.
C8_DrawWithdrawAfterReveal ==
    /\ [](\A g \in GameIds :
            Phase(g) = PHASE_DRAW =>
                LET t == temporary[g] IN
                /\ Withdrawn(g, "p1_wd") => GetOr(t, "p1_rev", FALSE)
                /\ Withdrawn(g, "p2_wd") => GetOr(t, "p2_rev", FALSE)
                /\ \A caller \in Addr :
                    LET a == resolve_caller_simple(g, caller)
                        r == withdraw(g, a)
                        mine == IF a = Player1(g) THEN "p1_wd" ELSE "p2_wd"
                    IN  a \in {Player1(g), Player2(g)} =>
                            /\ ~Revealed(g, a) => r.err = "InvalidReveal"
                            /\ (Revealed(g, a) /\ ~Withdrawn(g, mine)) =>
                                /\ r.err = "Ok" /\ r.payout = t.es_amt
                                /\ r.xfer = IF t.es_amt > 0 THEN <<Transfer(t.es_token, Contract, a, t.es_amt)>> ELSE <<>>
                            /\ \A word \in RevealWords, public_inputs \in PublicInputs, proof_bytes \in Proofs :
                                reveal_word_draw(g, a, word, public_inputs, proof_bytes).err = "Ok"
                                    => SelfReveal(CommitmentOf(g, a), word, public_inputs, proof_bytes))
    /\ [][\A g \in GameIds, key \in {"p1_rev", "p2_rev"} :
            (~GetOr(temporary[g], key, FALSE) /\ GetOr(temporary[g], key, FALSE)') =>
                /\ Phase(g) = PHASE_DRAW
                /\ ret'.op = "reveal_word_draw" /\ ret'.game = g
                /\ ret'.actual = (IF key = "p1_rev" THEN Player1(g) ELSE Player2(g))
       ]_vars

\* C8 witness: in a draw one player revealed and took the stake back, while the other,
\* who has not revealed, is refused with InvalidReveal.
C8_Witness ==
    \E g \in GameIds :
        /\ Phase(g) = PHASE_DRAW /\ ret.op = "withdraw" /\ ret.payout = Stake
        /\ Player1(g) # Player2(g)
        /\ Revealed(g, ret.actual) /\ ~Revealed(g, OpponentOf(g, ret.actual))
        /\ withdraw(g, OpponentOf(g, ret.actual)).err = "InvalidReveal"

\* C9 (as claimed): claim_timeout is committed only for a caller resolved to the
\* opponent of the player whose turn it is, and in an ACTIVE game past its deadline
\* every other resolved caller gets WrongPlayer, whatever proof it supplies.
C9_TimeoutOnlyByOpponent ==
    \A g \in GameIds :
        /\ (ret.op = "claim_timeout" /\ ret.game = g) => ret.actual = NotToMove(g)
        /\ (Phase(g) = PHASE_ACTIVE /\ now > Deadline(g)) =>
            \A caller \in Addr, word \in RevealWords, public_inputs \in PublicInputs, proof_bytes \in Proofs :
                LET a == resolve_caller_simple(g, caller) IN
                a # NotToMove(g) => claim_timeout(g, a, word, public_inputs, proof_bytes).err = "WrongPlayer"

\* C10: in an ACTIVE game claim_timeout returns WrongPhase while now <= deadline; past
\* the deadline, for the player who is not to move, it returns Ok exactly on a
\* self-reveal against that player's own commitment, and then makes that player the
\* winner, stores the revealed word in the player's slot and sets the phase to
\* FINALIZED (anything else is an error, which leaves the game ACTIVE).
C10_TimeoutClaim ==
    \A g \in GameIds :
        Phase(g) = PHASE_ACTIVE =>
            \A caller \in Addr, word \in RevealWords, public_inputs \in PublicInputs, proof_bytes \in Proofs :
                LET a == resolve_caller_simple(g, caller)
                    r == claim_timeout(g, a, word, public_inputs, proof_bytes)
                    entitled == a = NotToMove(g) /\ a # ToMove(g)
                    valid == SelfReveal(CommitmentOf(g, a), word, public_inputs, proof_bytes)
                IN  /\ now <= Deadline(g) => r.err = "WrongPhase"
                    /\ (now > Deadline(g) /\ entitled /\ valid) =>
                        /\ r.err = "Ok"
                        /\ r.t.gm_win = a
                        /\ r.t[IF a = Player1(g) THEN "p1_word" ELSE "p2_word"] = word
                        /\ r.t.gm_phase = PHASE_FINALIZED
                    /\ (now > Deadline(g) /\ entitled /\ ~valid) => r.err # "Ok"

\* C10 witness: the player not to move claimed the timeout and is the winner, the
\* revealed word stored.
C10_Witness ==
    \E g \in GameIds :
        /\ Phase(g) = PHASE_FINALIZED /\ ret.op = "claim_timeout" /\ ret.game = g
        /\ ret.actual = NotToMove(g) /\ ret.actual # ToMove(g)
        /\ temporary[g].gm_win = ret.actual
        /\ temporary[g][IF ret.actual = Player1(g) THEN "p1_word" ELSE "p2_word"] = apple
        /\ now > Deadline(g)

\* C11: in an ACTIVE game whose deadline has passed, submit_turn returns GameExpired
\* to every caller with every input, on every turn; time passing changes nothing the
\* contract stores; and the stored state of such a game changes only in a committed
\* claim_timeout or resign.
C11_ExpiredStaysActive ==
    /\ [](\A g \in GameIds :
            (Phase(g) = PHASE_ACTIVE /\ now > Deadline(g)) =>
                \A caller \in Addr, guess \in GuessInputs, public_inputs \in PublicInputs, proof_bytes \in Proofs :
                    submit_turn(g, resolve_caller_simple(g, caller), guess[1], guess[2], guess[3],
                                public_inputs, proof_bytes).err = "GameExpired")
    /\ [][/\ now' # now => temporary' = temporary
          /\ \A g \in GameIds :
                (Phase(g) = PHASE_ACTIVE /\ now > Deadline(g) /\ temporary'[g] # temporary[g]) =>
                    /\ ret'.op \in {"claim_timeout", "resign"} /\ ret'.game = g
                    /\ Phase(g)' = PHASE_FINALIZED
       ]_vars

\* C11 witness: the deadline of the last turn has passed and the game is still ACTIVE,
\* no winner stored.
C11_Witness ==
    \E g \in GameIds :
        /\ Phase(g) = PHASE_ACTIVE /\ Turn(g) = MAX_TURNS /\ now > Deadline(g)
        /\ ~Has(temporary[g], "gm_win") /\ ret.op = "tick"
        /\ submit_turn(g, ToMove(g), apple, PathElements(1), PathIndices(1),
                       [commitment |-> CommitmentOf(g, ToMove(g)), letters |-> temporary[g].gm_guess, results |-> NotAllCorrect],
                       ProbeProof).err = "GameExpired"

\* C12: on turns >= 2 of an ACTIVE, unexpired game, the player to move gets Ok from
\* submit_turn only with public inputs that embed that player's own stored commitment
\* and the stored last guess as letters; with any other commitment or letters the call
\* returns GuessWordMismatch whatever the proof is (so before the verifier is asked),
\* and the stored results change only in a committed submit_turn.
C12_BinderChecksCommitmentAndGuess ==
    /\ [](\A g \in GameIds :
            (Phase(g) = PHASE_ACTIVE /\ Turn(g) >= 2 /\ now <= Deadline(g)) =>
                \A guess \in GuessInputs, public_inputs \in PublicInputs, proof_bytes \in Proofs :
                    LET a == ToMove(g)
                        r == submit_turn(g, a, guess[1], guess[2], guess[3], public_inputs, proof_bytes)
                        bound == /\ public_inputs.commitment = CommitmentOf(g, a)
                                 /\ public_inputs.letters = temporary[g].gm_guess
                    IN  /\ r.err = "Ok" => bound
                        /\ ~bound => r.err = "GuessWordMismatch")
    /\ [][\A g \in GameIds :
            (Has(temporary[g], "gm_res") # Has(temporary'[g], "gm_res")
                \/ (Has(temporary[g], "gm_res") /\ temporary'[g].gm_res # temporary[g].gm_res)) =>
                    /\ ret'.op = "submit_turn" /\ ret'.game = g /\ ret'.actual = ToMove(g)
       ]_vars

\* C12 witness: on a turn >= 3 the two commitments differ and the last guess is not the
\* first one; a verifying proof for the other player's commitment, and one for the
\* earlier guess, are both refused with GuessWordMismatch.
C12_Witness ==
    \E g \in GameIds :
        LET a == ToMove(g)
            t == temporary[g]
        IN  /\ Phase(g) = PHASE_ACTIVE /\ Turn(g) >= 3 /\ now <= Deadline(g)
            /\ t.gm_c1 # t.gm_c2 /\ t.gm_guess = grape /\ ret.op = "submit_turn"
            /\ submit_turn(g, a, apple, PathElements(1), PathIndices(1),
                   [commitment |-> CommitmentOf(g, OpponentOf(g, a)), letters |-> t.gm_guess, results |-> NotAllCorrect],
                   ProbeProof).err = "GuessWordMismatch"
            /\ submit_turn(g, a, apple, PathElements(1), PathIndices(1),
                   [commitment |-> CommitmentOf(g, a), letters |-> apple, results |-> NotAllCorrect],
                   ProbeProof).err = "GuessWordMismatch"
            /\ submit_turn(g, a, apple, PathElements(1), PathIndices(1),
                   [commitment |-> CommitmentOf(g, a), letters |-> t.gm_guess, results |-> NotAllCorrect],
                   ProbeProof).err = "Ok"

\* C13 (as claimed): create_game and join_game return Ok, and so store the commitment,
\* only when the word-commit proof verifies against public inputs that embed the
\* submitted commitment and the canonical root MERKLE_ROOT; public inputs carrying
\* another root are never accepted.
C13_WordCommitRootIsCanonical ==
    \A g \in GameIds, wc_public_inputs \in WcPublicInputs, wc_proof_bytes \in Proofs :
        LET accepted == /\ wc_proof_bytes.len = PROOF_BYTES /\ wc_proof_bytes.verifies
                        /\ wc_public_inputs.root = MERKLE_ROOT
        IN  /\ \A player1 \in Creators, commitment1 \in CreatorCommitments, token_addr \in Tokens, amount \in Amounts :
                create_game(g, player1, commitment1, token_addr, amount, wc_public_inputs, wc_proof_bytes).err = "Ok"
                    => (accepted /\ wc_public_inputs.commitment = commitment1)
            /\ \A player2 \in Joiners, commitment2 \in Commitments :
                join_game(g, player2, commitment2, wc_public_inputs, wc_proof_bytes).err = "Ok"
                    => (accepted /\ wc_public_inputs.commitment = commitment2)

\* C14 (as claimed): an identity K other than player P is resolved to P in game G only
\* if P is among the identities that authorized the registration of K for (G, P); and
\* every committed submit_turn, resign, reveal_word, reveal_word_draw, claim_timeout or
\* withdraw that a caller other than P made as P rests on such a registration.
C14_SessionKeyNeedsPlayerAuth ==
    /\ \A K \in DOMAIN session_reverse :
        LET G == session_reverse[K][1]
            P == session_reverse[K][2]
        IN  (K # P /\ resolve_caller_simple(G, K) = P) => P \in register_session_key_auth(G, P, K)
    /\ (/\ ret.op \in {"submit_turn", "resign", "reveal_word", "reveal_word_draw", "claim_timeout", "withdraw"}
        /\ ret.caller # ret.actual)
            => ret.actual \in register_session_key_auth(ret.game, ret.actual, ret.caller)

\* C15: every committed withdraw that transfers pays the resolved caller, who is
\* player1 or player2 of the game, out of the contract; and a withdraw signed by a
\* session key registered for a player of the game who may withdraw is accepted and
\* pays that player, not the key.
C15_WithdrawPaysPlayer ==
    \A g \in GameIds :
        /\ (ret.op = "withdraw" /\ ret.game = g /\ ret.xfer # <<>>) =>
            /\ Len(ret.xfer) = 1
            /\ ret.xfer[1].from = Contract
            /\ ret.xfer[1].to = ret.actual
            /\ ret.xfer[1].to \in {Player1(g), Player2(g)}
        /\ \A K \in DOMAIN session_reverse :
            LET P == session_reverse[K][2]
                r == withdraw(g, resolve_caller_simple(g, K))
            IN  (session_reverse[K][1] = g /\ K # P /\ Joined(g) /\ withdraw(g, P).err = "Ok") =>
                    /\ r.err = "Ok"
                    /\ r.xfer = IF r.payout > 0 THEN <<Transfer(temporary[g].es_token, Contract, P, r.payout)>> ELSE <<>>

\* C15 witness: a withdraw signed by the session key paid the player it stands for.
C15_Witness ==
    \E g \in GameIds :
        /\ ret.op = "withdraw" /\ ret.game = g /\ ret.caller \in SessionKeys
        /\ ret.caller # ret.actual /\ ret.payout = 2 * Stake
        /\ ret.xfer = <<Transfer(temporary[g].es_token, Contract, ret.actual, 2 * Stake)>>

\* The stored remaining time of the player whose turn it is in the game entries t.
RemainingToMove(t) == IF t.gm_turn % 2 = 1 THEN t.p1_time ELSE t.p2_time

\* C16 (as claimed): the deadline of a game is written only by a committed join_game or
\* submit_turn, and whenever one of them leaves the game ACTIVE the deadline it leaves
\* is the time of that call plus the stored remaining time of the player who is then
\* to move; so in every ACTIVE state deadline = time of the join or of the last
\* successful submit_turn + remaining time of the player to move.
C16_DeadlineIsMovePlusRemaining ==
    [][\A g \in GameIds :
        LET t == temporary[g]
            u == temporary'[g]
        IN  /\ (Has(u, "gm_dead") /\ (~Has(t, "gm_dead") \/ u.gm_dead # t.gm_dead)) =>
                    ret'.op \in {"join_game", "submit_turn"} /\ ret'.game = g
            /\ (GetOr(u, "gm_phase", 255) = PHASE_ACTIVE /\ u # t) =>
                    /\ ret'.op \in {"join_game", "submit_turn"} /\ ret'.game = g
                    /\ u.gm_dead = now + RemainingToMove(u)
      ]_vars

\* C16 holds of the games whose two players are distinct identities.
C16_DistinctPlayers ==
    [][\A g \in GameIds :
        LET t == temporary[g]
            u == temporary'[g]
        IN  (GetOr(u, "gm_phase", 255) = PHASE_ACTIVE /\ u # t /\ u.gm_p1 # u.gm_p2) =>
                    /\ ret'.op \in {"join_game", "submit_turn"} /\ ret'.game = g
                    /\ u.gm_dead = now + RemainingToMove(u)
      ]_vars

\* C17 (as claimed): each stored remaining time is TURN_DURATION_SECS when join_game
\* sets it, never increases afterwards and is never below 0: no player uses more than
\* the initial allowance over any sequence of accepted moves.
C17_ClockNeverGains ==
    /\ [](\A g \in GameIds, k \in {"p1_time", "p2_time"} :
            Has(temporary[g], k) => (temporary[g][k] >= 0 /\ temporary[g][k] <= TURN_DURATION_SECS))
    /\ [][\A g \in GameIds, k \in {"p1_time", "p2_time"} :
            LET t == temporary[g]
                u == temporary'[g]
            IN  IF Has(t, k) THEN Has(u, k) /\ u[k] <= t[k]
                ELSE Has(u, k) => (u[k] = TURN_DURATION_SECS /\ ret'.op = "join_game")
       ]_vars

\* C17 holds of the games whose two players are distinct identities.
C17_DistinctPlayers ==
    [][\A g \in GameIds, k \in {"p1_time", "p2_time"} :
            LET t == temporary[g]
                u == temporary'[g]
            IN  (Has(t, k) /\ t.gm_p1 # t.gm_p2) => (Has(u, k) /\ u[k] <= t[k] /\ u[k] >= 0)
      ]_vars

C19_LastTurnVerifyOnly ==
    \A g \in GameIds :
        (Phase(g) = PHASE_ACTIVE /\ Turn(g) = MAX_TURNS) =>
            \A caller \in Addr, public_inputs \in PublicInputs, proof_bytes \in Proofs, guess \in GuessInputs :
                LET t == temporary[g]
                    a == resolve_caller_simple(g, caller)
                    r == submit_turn(g, a, guess[1], guess[2], guess[3], public_inputs, proof_bytes)
                IN  /\ \A other \in GuessInputs :
                        submit_turn(g, a, other[1], other[2], other[3], public_inputs, proof_bytes) = r
                    /\ r.err = "Ok" =>
                        /\ r.t.gm_guess = t.gm_guess
                        /\ r.t.gm_turn = MAX_TURNS
                        /\ ~all_correct(public_inputs.results) =>
                            /\ r.t.gm_phase = PHASE_DRAW
                            /\ Has(r.t, "p1_rev") /\ r.t.p1_rev = FALSE
                            /\ Has(r.t, "p2_rev") /\ r.t.p2_rev = FALSE

\* C19 witness: the judgement of turn 13 was not all-correct: the game is a DRAW, the
\* turn still 13, both reveal flags false.
C19_Witness ==
    \E g \in GameIds :
        /\ Phase(g) = PHASE_DRAW /\ Turn(g) = MAX_TURNS /\ ret.op = "submit_turn"
        /\ Has(temporary[g], "p1_rev") /\ ~temporary[g].p1_rev
        /\ Has(temporary[g], "p2_rev") /\ ~temporary[g].p2_rev
        /\ temporary[g].gm_res = NotAllCorrect

\* C20 (as claimed): the end notification the hub received for a game that ended in
\* DRAW is neither the notification of a win of player1 nor that of a win of player2.
C20_DrawNotificationDistinct ==
    \A g \in GameIds :
        Phase(g) = PHASE_DRAW =>
            \A i \in 1..Len(hub) :
                (hub[i].fn = "end_game" /\ hub[i].session_id = GetOr(temporary[g], "gm_sid", 0)) =>
                    /\ hub[i] # call_end_game(g, TRUE)
                    /\ hub[i] # call_end_game(g, FALSE)

\* C21: while a game is ACTIVE its turn is in 1..MAX_TURNS, and in no phase is a stored
\* turn above MAX_TURNS (or below 1).
C21_TurnWithinBounds ==
    \A g \in GameIds :
        /\ Phase(g) = PHASE_ACTIVE => (Has(temporary[g], "gm_turn") /\ Turn(g) >= 1 /\ Turn(g) <= MAX_TURNS)
        /\ Has(temporary[g], "gm_turn") => (Turn(g) >= 1 /\ Turn(g) <= MAX_TURNS)

\* C21 witness: the game is ACTIVE on its last turn, the move of turn 12 just accepted.
C21_Witness ==
    \E g \in GameIds :
        Phase(g) = PHASE_ACTIVE /\ Turn(g) = MAX_TURNS /\ ret.op = "submit_turn" /\ ret.actual = Player2(g)

\* C22 (as claimed): every committed submit_turn increases turn by exactly 1, and turn
\* changes in no other step once join_game has set it to 1.
C22_EverySubmitAdvancesTurn ==
    [][\A g \in GameIds :
        LET t == temporary[g]
            u == temporary'[g]
        IN  /\ (ret'.op = "submit_turn" /\ ret'.game = g /\ u # t) => u.gm_turn = t.gm_turn + 1
            /\ (Has(t, "gm_turn") /\ u.gm_turn # t.gm_turn) => (ret'.op = "submit_turn" /\ ret'.game = g)
            /\ (~Has(t, "gm_turn") /\ Has(u, "gm_turn")) => (ret'.op = "join_game" /\ u.gm_turn = 1)
      ]_vars

\* C22 (amended): a committed submit_turn that leaves the game ACTIVE increases turn by
\* exactly 1, and one that ends it (REVEAL on an all-correct result, DRAW on turn 13)
\* leaves turn as it was; turn changes in no other step once join_game has set it to 1.
C22_MoveAdvancesTurn ==
    [][\A g \in GameIds :
        LET t == temporary[g]
            u == temporary'[g]
        IN  /\ (ret'.op = "submit_turn" /\ ret'.game = g /\ u # t) =>
                IF u.gm_phase = PHASE_ACTIVE THEN u.gm_turn = t.gm_turn + 1
                ELSE /\ u.gm_turn = t.gm_turn
                     /\ u.gm_phase = (IF all_correct(u.gm_res) THEN PHASE_REVEAL ELSE PHASE_DRAW)
                     /\ u.gm_phase = PHASE_DRAW => t.gm_turn = MAX_TURNS
            /\ (Has(t, "gm_turn") /\ u.gm_turn # t.gm_turn) => (ret'.op = "submit_turn" /\ ret'.game = g)
            /\ (~Has(t, "gm_turn") /\ Has(u, "gm_turn")) => (ret'.op = "join_game" /\ u.gm_turn = 1)
      ]_vars

\* C22 witness: turn 3 was reached by two accepted moves, and the judgement of turn 3
\* ended the game in REVEAL with the turn still 3.
C22_Witness ==
    \E g \in GameIds :
        /\ Phase(g) = PHASE_REVEAL /\ Turn(g) = 3 /\ ret.op = "submit_turn" /\ ret.actual = Player1(g)
        /\ Player1(g) # Player2(g)

\* The amounts a creator may pass, a negative one included.
CreateAmounts == {0 - Stake, 0, Stake}

\* C23: the transfer of a committed join_game is the transfer of the game's create_game
\* with player2 as payer: the stored escrow amount in the stored token when that amount
\* is positive, and no transfer at all when it is not; so a joined game has taken in
\* exactly twice the stored amount.  The record any create_game writes, for a positive,
\* zero or negative amount, makes join_game transfer what create_game transferred.
C23_JoinMatchesCreate ==
    /\ \A g \in GameIds :
        LET t == temporary[g]
            terms(payer) == IF t.es_amt > 0 THEN <<Transfer(t.es_token, payer, Contract, t.es_amt)>> ELSE <<>>
        IN  /\ (ret.op = "create_game" /\ ret.game = g) => ret.xfer = terms(t.gm_p1)
            /\ (ret.op = "join_game" /\ ret.game = g) => ret.xfer = terms(t.gm_p2)
            /\ Has(t, "gm_phase") =>
                escrow_in[g] = (IF t.es_amt > 0 THEN t.es_amt ELSE 0) * (IF Joined(g) THEN 2 ELSE 1)
    /\ \A g \in GameIds, player1 \in Creators, player2 \in Joiners, token_addr \in Tokens, amount \in CreateAmounts :
        LET r == create_game(g, player1, "cA", token_addr, amount, ProbeWcPI("cA"), ProbeProof)
        IN  r.err = "Ok" =>
                /\ r.xfer = (IF amount > 0 THEN <<Transfer(token_addr, player1, Contract, amount)>> ELSE <<>>)
                /\ Len(r.xfer) = Len(join_transfer(r.t, player2))
                /\ r.xfer # <<>> =>
                    join_transfer(r.t, player2) = <<[r.xfer[1] EXCEPT !.from = player2]>>

\* C23 witness: a join_game was committed on a game created with a positive stake.
C23_Witness ==
    \E g \in GameIds :
        /\ ret.op = "join_game" /\ ret.game = g /\ ret.xfer # <<>> /\ ret.xfer[1].amount = Stake
        /\ escrow_in[g] = 2 * Stake

\* The check each handler makes on the stored game and the caller before it does
\* anything else, for the call recorded in r on the game record t.
GatePassed(t, r) ==
    LET is_player == r.actual \in {GetOr(t, "gm_p1", "-"), GetOr(t, "gm_p2", "-")}
        phase == GetOr(t, "gm_phase", 255)
    IN  CASE r.op = "create_game" -> ~Has(t, "gm_phase")
          [] r.op = "join_game" -> phase = PHASE_WAITING
          [] r.op = "submit_turn" -> phase = PHASE_ACTIVE /\ ~submit_expired(t) /\ r.actual = expected_player(t, t.gm_turn)
          [] r.op = "reveal_word" -> phase = PHASE_REVEAL /\ r.actual = t.gm_win
          [] r.op = "reveal_word_draw" -> phase = PHASE_DRAW /\ is_player
          [] r.op = "resign" -> phase = PHASE_ACTIVE /\ is_player
          [] r.op = "claim_timeout" -> phase = PHASE_ACTIVE /\ ~timeout_too_early(t)
          [] r.op = "withdraw" -> phase \in {PHASE_FINALIZED, PHASE_DRAW} /\ is_player
          [] r.op = "register_session_key" -> is_player
          [] OTHER -> FALSE

\* The submit_turn calls of C24's case on game g: turn 2..12, the caller to move in
\* time, public inputs bound to the stored commitment and guess with a proof that
\* verifies and a result that is not all-correct, and a new guess that fails the
\* dictionary check.
C24_LateFailures(g) ==
    LET t == temporary[g] IN
    IF Phase(g) # PHASE_ACTIVE \/ Turn(g) < 2 \/ Turn(g) >= MAX_TURNS \/ submit_expired(t) THEN {}
    ELSE {c \in GuessInputs \X PublicInputs :
            /\ do_verify_guess(c[1][1], c[1][2], c[1][3]) # "Ok"
            /\ c[2].commitment = CommitmentOf(g, ToMove(g))
            /\ pi_letters_match(c[2], t.gm_guess)
            /\ ~all_correct(extract_results(c[2]))}

WrongLengths == {"PROOF_BYTES-1", "PROOF_BYTES+1"}

\* What the outcomes of one call say when it is made with a proof of a wrong length that
\* the verifier would accept (yes), with the same proof were it one the verifier would
\* refuse (no), and with a good proof of PROOF_BYTES bytes (good): the call fails, the
\* same way whatever the verifier would say, and with ProofParseError when nothing but
\* the proof is wrong.
C25_Rejected(yes, no, good) ==
    LET e == yes.err IN
    /\ e # "Ok"
    /\ e \notin GateErrors => (no.err = e /\ (good.err = "Ok" => e = "ProofParseError"))
    /\ e \in GateErrors => no.err = e

\* C25: in every state, for every caller and every other input, a proof of a length
\* other than PROOF_BYTES makes create_game, join_game, submit_turn on turns >= 2,
\* reveal_word, reveal_word_draw, claim_timeout and the standalone verify_proof return an
\* error, and the outcome does not depend on what the verifier would say of the proof:
\* the verifier is not asked.
C25_WrongLengthProofRejected ==
    /\ \A len \in WrongLengths, verifies \in BOOLEAN, public_inputs \in PublicInputs :
        /\ verify_proof(public_inputs, [len |-> len, verifies |-> verifies]) = "ProofParseError"
        /\ do_verify_proof(public_inputs, [len |-> len, verifies |-> verifies]) = "ProofParseError"
        /\ \A c \in Commitments, wc \in WcPublicInputs :
            do_verify_word_commit(c, wc, [len |-> len, verifies |-> verifies]) = "ProofParseError"
    /\ LET yes == [len |-> "PROOF_BYTES-1", verifies |-> TRUE]
           no == [len |-> "PROOF_BYTES-1", verifies |-> FALSE]
       IN
        /\ \A g \in GameIds, a \in Joiners, c \in Commitments, wc \in WcPublicInputs :
            /\ C25_Rejected(create_game(g, a, c, "xlm", Stake, wc, yes), create_game(g, a, c, "xlm", Stake, wc, no),
                            create_game(g, a, c, "xlm", Stake, wc, ProbeProof))
            /\ C25_Rejected(join_game(g, a, c, wc, yes), join_game(g, a, c, wc, no), join_game(g, a, c, wc, ProbeProof))
        /\ \A g \in GameIds, caller \in Addr, public_inputs \in PublicInputs :
            LET a == resolve_caller_simple(g, caller) IN
            /\ (Has(temporary[g], "gm_turn") /\ Turn(g) >= 2) =>
                \A guess \in GuessInputs :
                    C25_Rejected(submit_turn(g, a, guess[1], guess[2], guess[3], public_inputs, yes),
                                 submit_turn(g, a, guess[1], guess[2], guess[3], public_inputs, no),
                                 submit_turn(g, a, guess[1], guess[2], guess[3], public_inputs, ProbeProof))
            /\ \A word \in RevealWords :
                /\ C25_Rejected(reveal_word(g, a, word, public_inputs, yes), reveal_word(g, a, word, public_inputs, no),
                                reveal_word(g, a, word, public_inputs, ProbeProof))
                /\ C25_Rejected(reveal_word_draw(g, a, word, public_inputs, yes),
                                reveal_word_draw(g, a, word, public_inputs, no),
                                reveal_word_draw(g, a, word, public_inputs, ProbeProof))
                /\ C25_Rejected(claim_timeout(g, a, word, public_inputs, yes), claim_timeout(g, a, word, public_inputs, no),
                                claim_timeout(g, a, word, public_inputs, ProbeProof))

\* C25 witness: the game is in REVEAL after an all-correct judgement, and the winner's
\* self-reveal, which a proof of PROOF_BYTES bytes would carry through, is refused with
\* ProofParseError for a proof one byte short.
C25_Witness ==
    \E g \in GameIds, public_inputs \in PublicInputs :
        /\ Phase(g) = PHASE_REVEAL /\ ret.op = "submit_turn"
        /\ reveal_word(g, temporary[g].gm_win, apple, public_inputs, ProbeProof).err = "Ok"
        /\ reveal_word(g, temporary[g].gm_win, apple, public_inputs,
                       [len |-> "PROOF_BYTES-1", verifies |-> TRUE]).err = "ProofParseError"

\* ------------------------------------------- verify_guess as a pure function

\* verify_guess(guess_word, path_elements, path_indices), lib.rs 1239..1246.
verify_guess(guess_word, path_elements, path_indices) == do_verify_guess(guess_word, path_elements, path_indices)

GuessWords == {apple, grape, lemon, olive, zzzzz, Apple, app}

\* The digests a caller may put in a path: every leaf and node of the tree, the root and
\* the leaf of a word outside the dictionary.
Digests ==
    {leaf_value(Dictionary[i]) : i \in 1..4} \cup {leaf_value(zzzzz), MERKLE_ROOT}
    \cup {poseidon2_hash(leaf_value(Dictionary[1]), leaf_value(Dictionary[2])),
          poseidon2_hash(leaf_value(Dictionary[3]), leaf_value(Dictionary[4]))}

\* The number of places (two siblings, two side bits) where a path differs from the
\* path of the dictionary word at position i.
PathDistance(i, path_elements, path_indices) ==
    Cardinality({k \in 1..2 : path_elements[k] # PathElements(i)[k]})
    + Cardinality({k \in 1..2 : path_indices[k] # PathIndices(i)[k]})

\* Paths of the tree's depth that are the path of some dictionary word with at most one
\* sibling or side bit altered.
GuessPaths ==
    {p \in (Digests \X Digests) \X ({0, 1} \X {0, 1}) : \E i \in 1..4 : PathDistance(i, p[1], p[2]) <= 1}

GuessInit ==
    /\ temporary = [g \in GameIds |-> <<>>]
    /\ session_key = <<>>
    /\ session_reverse = <<>>
    /\ game_count = 0
    /\ game_at = <<>>
    /\ game_creator = <<>>
    /\ now = 0
    /\ balance = [k \in Tokens |-> 0]
    /\ escrow_in = [g \in GameIds |-> 0]
    /\ escrow_out = [g \in GameIds |-> 0]
    /\ hub = <<>>
    /\ regs = 0
    /\ \E guess_word \in GuessWords, p \in GuessPaths :
        ret = [op |-> "input", guess_word |-> guess_word, path_elements |-> p[1], path_indices |-> p[2], err |-> "-"]

\* The call verify_guess(ret.guess_word, ret.path_elements, ret.path_indices); it
\* reads and writes no storage.
VerifyGuess ==
    /\ ret.op = "input"
    /\ ret' = [ret EXCEPT !.op = "verify_guess",
                          !.err = verify_guess(ret.guess_word, ret.path_elements, ret.path_indices)]
    /\ UNCHANGED <<storage, now, regs>>

GuessNext == VerifyGuess

GuessSpec == GuessInit /\ [][GuessNext]_vars

\* C26: verify_guess returns Ok for every dictionary word given with its own sibling
\* path and side bits, and InvalidMerkleProof when exactly one sibling digest or one side
\* bit of that path is altered; a word that is not 5 bytes long gets InvalidGuessLength
\* and a 5-byte word with a byte outside 'a'..'z' gets InvalidCharacter, whatever the
\* path is.
C26_VerifyGuess ==
    ret.op = "verify_guess" =>
        /\ Len(ret.guess_word) # 5 => ret.err = "InvalidGuessLength"
        /\ (Len(ret.guess_word) = 5 /\ \E k \in 1..5 : ret.guess_word[k] < 97 \/ ret.guess_word[k] > 122) =>
            ret.err = "InvalidCharacter"
        /\ \A i \in 1..4 :
            ret.guess_word = Dictionary[i] =>
                /\ PathDistance(i, ret.path_elements, ret.path_indices) = 0 => ret.err = "Ok"
                /\ PathDistance(i, ret.path_elements, ret.path_indices) = 1 => ret.err = "InvalidMerkleProof"

\* C26 witness: verify_guess has refused the third dictionary word, given with its own
\* path but the side bit of the second level flipped.
C26_Witness ==
    /\ ret.op = "verify_guess" /\ ret.guess_word = Dictionary[3]
    /\ ret.path_elements = PathElements(3)
    /\ ret.path_indices = <<PathIndices(3)[1], 1 - PathIndices(3)[2]>>
    /\ ret.err = "InvalidMerkleProof"

\* ------------------------------------------------------- the game registry

get_game_count == game_count

get_game_id_at(index) == GetOr(game_at, index, Contract)

get_game_creator(game_id) == GetOr(game_creator, game_id, game_id)

\* The registry with several games: three game ids, either player creating.
RegistryIds == {"g1", "g2", "g3"}

RegistryInit ==
    /\ temporary = [g \in RegistryIds |-> <<>>]
    /\ session_key = <<>>
    /\ session_reverse = <<>>
    /\ game_count = 0
    /\ game_at = <<>>
    /\ game_creator = <<>>
    /\ now = 0
    /\ balance = [k \in Tokens |-> 0]
    /\ escrow_in = [g \in RegistryIds |-> 0]
    /\ escrow_out = [g \in RegistryIds |-> 0]
    /\ hub = <<>>
    /\ regs = 0
    /\ ret = Ret("init", "-", "-", "-", "Ok", 0, <<>>)

RegistryCreateGame == CreateGameIn(RegistryIds, Joiners)

RegistryJoinGame == JoinGameIn(RegistryIds)

RegistryNext ==
    \/ RegistryCreateGame
    \/ RegistryJoinGame

RegistrySpec == RegistryInit /\ [][RegistryNext]_vars

\* The games that exist.
Created == {g \in RegistryIds : Has(temporary[g], "gm_phase")}

\* C27: the registry is append-only.  The count is the number of games created so far;
\* indices 0..count-1, and no others, hold the ids of those games, each once, a game
\* at the index that was the count when it was created, with its creator recorded.  A
\* step changes the registry only by committing a create_game of an id that did not
\* exist: it stores that id at the old count, adds 1 to the count and leaves the entries
\* below it as they were.  Every create_game on an id that exists returns an error
\* (GameAlreadyExists when its proof is good), so that it changes neither the registry
\* nor the game nor a balance.
C27_RegistryAppendOnly ==
    /\ [](/\ get_game_count = Cardinality(Created)
          /\ DOMAIN game_at = 0..(get_game_count - 1)
          /\ {get_game_id_at(i) : i \in DOMAIN game_at} = Created
          /\ DOMAIN game_creator = Created
          /\ \A i \in DOMAIN game_at :
                /\ temporary[get_game_id_at(i)].gm_sid = i
                /\ get_game_creator(get_game_id_at(i)) = temporary[get_game_id_at(i)].gm_p1
          /\ \A g \in Created, player1 \in Joiners, amount \in Amounts, wc \in WcPublicInputs, proof_bytes \in Proofs :
                LET r == create_game(g, player1, wc.commitment, "xlm", amount, wc, proof_bytes)
                IN  /\ r.err # "Ok"
                    /\ proof_bytes = ProbeProof => r.err = "GameAlreadyExists")
    /\ [][/\ <<game_count, game_at, game_creator>>' # <<game_count, game_at, game_creator>> =>
                /\ ret'.op = "create_game"
                /\ ret'.game \notin Created
                /\ game_count' = game_count + 1
                /\ game_at' = Set(game_at, game_count, ret'.game)
                /\ \A i \in DOMAIN game_at : game_at'[i] = game_at[i]
                /\ game_creator' = Set(game_creator, ret'.game, ret'.actual)
          /\ \A g \in RegistryIds :
                /\ (g \notin Created /\ Has(temporary'[g], "gm_phase")) =>
                    (game_count' = game_count + 1 /\ game_at'[game_count] = g)
                /\ (g \in Created /\ (ret'.op # "join_game" \/ ret'.game # g)) =>
                    (temporary'[g] = temporary[g] /\ escrow_in'[g] = escrow_in[g])
      ]_vars

\* C27 witness: all three games were created, the last one after an earlier game had
\* been joined; the registry lists the three ids.
C27_Witness ==
    /\ get_game_count = 3 /\ ret.op = "create_game"
    /\ \E g \in RegistryIds : Has(temporary[g], "gm_p2")
    /\ get_game_id_at(2) = ret.game /\ get_game_id_at(0) # get_game_id_at(1)

\* C28: in every state and for every caller, resign returns Ok exactly when the game is
\* ACTIVE and the resolved caller is player1 or player2, whatever the turn and the
\* deadline; it then stores the other player as winner and FINALIZED as phase, writes
\* nothing else and tells the hub that the other player won.  On a game in another
\* phase it returns WrongPhase, and on an ACTIVE game for a caller who is no player
\* WrongPlayer.  A game just resigned is FINALIZED with no word revealed.
C28_Resign ==
    \A g \in GameIds :
        LET t == temporary[g] IN
        /\ \A caller \in Addr :
            LET a == resolve_caller_simple(g, caller)
                r == resign(g, a)
                is_player == a \in {GetOr(t, "gm_p1", "-"), GetOr(t, "gm_p2", "-")}
            IN  /\ r.err = "Ok" <=> (Phase(g) = PHASE_ACTIVE /\ is_player)
                /\ r.err = "Ok" =>
                    /\ r.t = Set(Set(t, "gm_win", OpponentOf(g, a)), "gm_phase", PHASE_FINALIZED)
                    /\ r.xfer = <<>>
                    /\ r.calls = <<call_end_game(g, a # Player1(g))>>
                /\ Phase(g) \in {PHASE_WAITING, PHASE_REVEAL, PHASE_FINALIZED, PHASE_DRAW} => r.err = "WrongPhase"
                /\ (Phase(g) = PHASE_ACTIVE /\ ~is_player) => r.err = "WrongPlayer"
        /\ (ret.op = "resign" /\ ret.game = g) =>
            /\ Phase(g) = PHASE_FINALIZED
            /\ t.gm_win = OpponentOf(g, ret.actual)
            /\ ~Has(t, "p1_word") /\ ~Has(t, "p2_word")

\* C28 witness: the player whose turn it was not resigned after the deadline had passed,
\* and the player who was to move is the winner.
C28_Witness ==
    \E g \in GameIds :
        /\ ret.op = "resign" /\ ret.game = g /\ now > Deadline(g)
        /\ Player1(g) # Player2(g) /\ ret.actual = NotToMove(g) /\ temporary[g].gm_win = ToMove(g)

\* C29: in every state and for every caller, word, public inputs and proof, reveal_word
\* returns Ok exactly when the game is in REVEAL, the resolved caller is the stored
\* winner and the call is a self-reveal against the winner's stored commitment; a caller
\* other than the winner gets NotWinner in REVEAL.  On Ok the word goes to the winner's
\* word slot and the phase becomes FINALIZED, the winner and everything else staying as
\* stored.  A step that is not a committed reveal_word leaves a game in REVEAL as it is.
C29_RevealWord ==
    /\ [](\A g \in GameIds, caller \in Addr, word \in RevealWords, public_inputs \in PublicInputs, proof_bytes \in Proofs :
            LET t == temporary[g]
                a == resolve_caller_simple(g, caller)
                r == reveal_word(g, a, word, public_inputs, proof_bytes)
            IN  /\ r.err = "Ok" <=>
                    /\ Phase(g) = PHASE_REVEAL
                    /\ a = t.gm_win
                    /\ SelfReveal(CommitmentOf(g, a), word, public_inputs, proof_bytes)
                /\ (Phase(g) = PHASE_REVEAL /\ a # t.gm_win) => r.err = "NotWinner"
                /\ r.err = "Ok" =>
                    /\ r.t = Set(Set(t, IF a = Player1(g) THEN "p1_word" ELSE "p2_word", word), "gm_phase", PHASE_FINALIZED)
                    /\ r.t.gm_win = t.gm_win
                    /\ r.xfer = <<>>)
    /\ [][\A g \in GameIds :
            Phase(g) = PHASE_REVEAL =>
                \/ temporary'[g] = temporary[g]
                \/ /\ ret'.op = "reveal_word" /\ ret'.game = g /\ ret'.actual = temporary[g].gm_win
                   /\ Phase(g)' = PHASE_FINALIZED
                   /\ temporary'[g].gm_win = temporary[g].gm_win
                   /\ Len(temporary'[g][IF ret'.actual = Player1(g) THEN "p1_word" ELSE "p2_word"]) = 5
          ]_vars

\* C29 witness: the winner of a game decided by an all-correct judgement has revealed a
\* word, which is stored in the winner's slot, and the game is FINALIZED.
C29_Witness ==
    \E g \in GameIds :
        /\ ret.op = "reveal_word" /\ ret.game = g /\ Phase(g) = PHASE_FINALIZED
        /\ Player1(g) # Player2(g) /\ ret.actual = temporary[g].gm_win
        /\ Has(temporary[g], IF ret.actual = Player1(g) THEN "p1_word" ELSE "p2_word")
        /\ ~Has(temporary[g], IF ret.actual = Player1(g) THEN "p2_word" ELSE "p1_word")

\* The reveal flag and the word slot of each player.
DrawSlots == {<<"p1_rev", "p1_word">>, <<"p2_rev", "p2_word">>}

\* C30: a reveal flag that is set stays set and its word stays as stored; a flag becomes
\* set only in a reveal_word_draw committed in DRAW by the player it belongs to, which
\* stores a 5-byte word in that player's slot and leaves the other player's flag and
\* word as they were.  In DRAW a player whose flag is set gets AlreadyWithdrawn from
\* reveal_word_draw whatever word, public inputs and proof are given, and a player whose
\* flag is not set gets Ok only for a self-reveal against that player's own commitment.
C30_DrawRevealOnce ==
    /\ [](\A g \in GameIds :
            Phase(g) = PHASE_DRAW =>
                \A caller \in Addr, word \in RevealWords, public_inputs \in PublicInputs, proof_bytes \in Proofs :
                    LET a == resolve_caller_simple(g, caller)
                        r == reveal_word_draw(g, a, word, public_inputs, proof_bytes)
                    IN  a \in {Player1(g), Player2(g)} =>
                            /\ Revealed(g, a) => r.err = "AlreadyWithdrawn"
                            /\ (~Revealed(g, a) /\ r.err = "Ok") =>
                                SelfReveal(CommitmentOf(g, a), word, public_inputs, proof_bytes))
    /\ [][\A g \in GameIds, slot \in DrawSlots :
            LET t == temporary[g]
                u == temporary'[g]
                mine == IF slot[1] = "p1_rev" THEN Player1(g) ELSE Player2(g)
            IN  /\ GetOr(t, slot[1], FALSE) => (u[slot[1]] /\ u[slot[2]] = t[slot[2]])
                /\ (~GetOr(t, slot[1], FALSE) /\ GetOr(u, slot[1], FALSE)) =>
                    /\ Phase(g) = PHASE_DRAW
                    /\ ret'.op = "reveal_word_draw" /\ ret'.game = g /\ ret'.actual = mine
                    /\ Len(u[slot[2]]) = 5
                    /\ \A other \in DrawSlots \ {slot} :
                        /\ GetOr(u, other[1], FALSE) = GetOr(t, other[1], FALSE)
                        /\ GetOr(u, other[2], <<>>) = GetOr(t, other[2], <<>>)
          ]_vars

\* C30 witness: in a drawn game between two players both have revealed, player2 last.
C30_Witness ==
    \E g \in GameIds :
        /\ Phase(g) = PHASE_DRAW /\ Player1(g) # Player2(g)
        /\ ret.op = "reveal_word_draw" /\ ret.actual = Player2(g)
        /\ Revealed(g, Player1(g)) /\ Revealed(g, Player2(g))
        /\ Has(temporary[g], "p1_word") /\ Has(temporary[g], "p2_word")

\* ------------------------------------------------------- session key rotation

\* Number of register_session_key calls explored when keys are replaced.
MaxRotations == 3

\* The identities that register themselves as session keys when keys are replaced.
RotationKeys == {"carol", "dave"}

RotationRegisterSessionKey == RegisterSessionKeyIn(RotationKeys, MaxRotations)

RotationNext ==
    \/ CreateGame
    \/ JoinGame
    \/ Resign
    \/ RotationRegisterSessionKey

RotationSpec == Init /\ [][RotationNext]_vars

\* get_session_key's stored entry: key K is the forward entry of (G, P).
ForwardIs(G, P, K) == <<G, P>> \in DOMAIN session_key /\ session_key[<<G, P>>] = K

\* Key K has a reverse entry for (G, P), so that resolve_caller_simple(G, K) is P.
ResolvesTo(K, G, P) == K \in DOMAIN session_reverse /\ session_reverse[K] = <<G, P>>

\* C31: the two session-key mappings are inverse to each other: a key K is resolved to
\* player P in game G exactly when the forward entry of (G, P) is K.
C31_SessionMapsInverse ==
    \A G \in GameIds, P \in Addr, K \in RotationKeys :
        /\ ResolvesTo(K, G, P) <=> ForwardIs(G, P, K)
        /\ ResolvesTo(K, G, P) => resolve_caller_simple(G, K) = P

\* What does hold of the two mappings: a key that resolves to a player was registered
\* for that player, whose forward entry is some key; and the key registered last is in
\* both mappings.
C31_ReverseHasForward ==
    /\ \A G \in GameIds, P \in Addr, K \in RotationKeys :
        ResolvesTo(K, G, P) => \E K2 \in RotationKeys : ForwardIs(G, P, K2)
    /\ ret.op = "register_session_key" => (ResolvesTo(ret.caller, ret.game, ret.actual) /\ ForwardIs(ret.game, ret.actual, ret.caller))

\* The replaced key still acts: a second key was registered for a player, and the key
\* registered before it is still resolved to that player and can resign for them.
C31_StaleKeyActs ==
    \E G \in GameIds, P \in Addr, K \in RotationKeys :
        /\ ResolvesTo(K, G, P) /\ ~ForwardIs(G, P, K)
        /\ Phase(G) = PHASE_ACTIVE /\ resign(G, resolve_caller_simple(G, K)).err = "Ok"

\* C32: a stored winner is player1 or player2 of the game, and in a FINALIZED game the
\* stored winner's withdraw succeeds as long as the winner has not withdrawn.
C32_WinnerIsPlayer ==
    \A g \in GameIds :
        Has(temporary[g], "gm_win") =>
            LET w == temporary[g].gm_win IN
            /\ Phase(g) \in {PHASE_REVEAL, PHASE_FINALIZED}
            /\ w \in {Player1(g), Player2(g)}
            /\ (Phase(g) = PHASE_FINALIZED /\ ~Withdrawn(g, IF w = Player1(g) THEN "p1_wd" ELSE "p2_wd")) =>
                withdraw(g, w).err = "Ok"

\* The pot is stuck: the game is FINALIZED with a winner who is no player, the stake is
\* held, and withdraw fails for every caller.
C32_PotStuck ==
    \E g \in GameIds :
        /\ Phase(g) = PHASE_FINALIZED /\ temporary[g].gm_win \notin {Player1(g), Player2(g)}
        /\ escrow_in[g] = 2 * Stake /\ escrow_out[g] = 0
        /\ \A caller \in Addr : withdraw(g, resolve_caller_simple(g, caller)).err # "Ok"

\* Public inputs and a proof that one check of the binder accepts for commitment c: the
\* word-commit check of create_game and join_game, the self-reveal check of reveal_word,
\* reveal_word_draw and claim_timeout, or the judgement check of submit_turn.
AcceptedFor(c) ==
    [wc |-> {x \in WcPublicInputs \X Proofs : do_verify_word_commit(c, x[1], x[2]) = "Ok"},
     reveal |-> {x \in RevealWords \X PublicInputs \X Proofs : do_verify_reveal(c, x[1], x[2], x[3]) = "Ok"},
     judged |-> {x \in PublicInputs \X Proofs :
                c = extract_commitment_from_pi(x[1]) /\ do_verify_proof(x[1], x[2]) = "Ok"}]

\* C33: in every joined game commitment2 differs from commitment1, and nothing that a
\* binder check accepts for one player's commitment is accepted for the other's: the
\* word-commit proof of create_game does not pass join_game, and a player's reveal or
\* judgement proof passes no check made against the opponent's commitment.
C33_NoReplayAcrossPlayers ==
    \A g \in GameIds :
        Joined(g) =>
            LET mine == AcceptedFor(temporary[g].gm_c1)
                theirs == AcceptedFor(temporary[g].gm_c2)
            IN  /\ temporary[g].gm_c2 # temporary[g].gm_c1
                /\ mine.wc \cap theirs.wc = {}
                /\ mine.reveal \cap theirs.reveal = {}
                /\ mine.judged \cap theirs.judged = {}

\* What the binder does give: when the two stored commitments differ, nothing accepted
\* for one is accepted for the other.
C33_DistinctCommitmentsExclusive ==
    \A g \in GameIds :
        (Joined(g) /\ temporary[g].gm_c2 # temporary[g].gm_c1) =>
            LET mine == AcceptedFor(temporary[g].gm_c1)
                theirs == AcceptedFor(temporary[g].gm_c2)
            IN  /\ mine.wc # {} /\ mine.reveal # {} /\ mine.judged # {}
                /\ mine.wc \cap theirs.wc = {}
                /\ mine.reveal \cap theirs.reveal = {}
                /\ mine.judged \cap theirs.judged = {}

\* The replay: player2, another identity than player1, has joined with player1's
\* commitment and the very word-commit inputs and proof that create_game accepted.
C33_JoinedByReplay ==
    \E g \in GameIds :
        /\ ret.op = "join_game" /\ ret.game = g /\ Player1(g) # Player2(g)
        /\ temporary[g].gm_c2 = temporary[g].gm_c1
        /\ AcceptedFor(temporary[g].gm_c1).wc # {}

\* ------------------------------------------------------ time passing in REVEAL

\* The ledger closes while a game waits for its winner's reveal.
TickInReveal ==
    /\ \E g \in GameIds : GetOr(temporary[g], "gm_phase", 255) = PHASE_REVEAL
    /\ now + TickSecs <= MaxTime
    /\ now' = now + TickSecs
    /\ ret' = Ret("tick", "-", "-", "-", "Ok", 0, <<>>)
    /\ UNCHANGED <<storage, regs>>

RevealNext ==
    \/ Next
    \/ TickInReveal

RevealSpec == Init /\ [][RevealNext]_vars

\* What C34 says of every call but join_game on a game in REVEAL, and of the steps such
\* a game takes: submit_turn, resign, claim_timeout, reveal_word_draw and withdraw
\* return WrongPhase to every caller with every input, both stakes are held, and the
\* game's entries change only in a reveal_word committed by the stored winner.
C34_RevealWaits(g) ==
    /\ \A caller \in Addr :
        LET a == resolve_caller_simple(g, caller) IN
        /\ resign(g, a).err = "WrongPhase"
        /\ withdraw(g, a).err = "WrongPhase"
        /\ \A public_inputs \in PublicInputs, proof_bytes \in Proofs :
            /\ \A guess \in GuessInputs :
                submit_turn(g, a, guess[1], guess[2], guess[3], public_inputs, proof_bytes).err = "WrongPhase"
            /\ \A word \in RevealWords :
                /\ claim_timeout(g, a, word, public_inputs, proof_bytes).err = "WrongPhase"
                /\ reveal_word_draw(g, a, word, public_inputs, proof_bytes).err = "WrongPhase"
    /\ escrow_out[g] = 0
    /\ escrow_in[g] = 2 * temporary[g].es_amt
    /\ balance[temporary[g].es_token] >= escrow_in[g]

C34_RevealSteps ==
    \A g \in GameIds :
        Phase(g) = PHASE_REVEAL =>
            /\ now' # now => (temporary' = temporary /\ balance' = balance /\ escrow_out' = escrow_out)
            /\ temporary'[g] # temporary[g] =>
                /\ ret'.op = "reveal_word" /\ ret'.game = g /\ ret'.actual = temporary[g].gm_win
                /\ Phase(g)' = PHASE_FINALIZED

\* C34 (as claimed): while the phase is REVEAL, submit_turn, resign, claim_timeout,
\* reveal_word_draw, join_game and withdraw all return WrongPhase, whoever calls and
\* whatever the inputs; only the winner's reveal_word changes the game, and the stakes
\* stay in the contract whatever time passes.
C34_RevealAllWrongPhase ==
    /\ [](\A g \in GameIds :
            Phase(g) = PHASE_REVEAL =>
                /\ C34_RevealWaits(g)
                /\ \A player2 \in Addr, c \in Commitments, wc \in WcPublicInputs, proof_bytes \in Proofs :
                    join_game(g, player2, c, wc, proof_bytes).err = "WrongPhase")
    /\ [][C34_RevealSteps]_vars

\* C34 (amended): as claimed, but join_game returns WrongPhase only when its word-commit
\* check passes, and the error of that check (ProofParseError, GuessWordMismatch,
\* VerificationFailed) when it does not; either way it fails.
C34_RevealRefusesAll ==
    /\ [](\A g \in GameIds :
            Phase(g) = PHASE_REVEAL =>
                /\ C34_RevealWaits(g)
                /\ \A player2 \in Addr, c \in Commitments, wc \in WcPublicInputs, proof_bytes \in Proofs :
                    LET check == do_verify_word_commit(c, wc, proof_bytes) IN
                    join_game(g, player2, c, wc, proof_bytes).err = (IF check = "Ok" THEN "WrongPhase" ELSE check))
    /\ [][C34_RevealSteps]_vars

\* C34 witness: a staked game is in REVEAL and time has passed since it got there, the
\* deadline of the last move long gone.
C34_Witness ==
    \E g \in GameIds :
        /\ Phase(g) = PHASE_REVEAL /\ ret.op = "tick" /\ now > Deadline(g)
        /\ escrow_in[g] = 2 * Stake /\ balance["xlm"] = 2 * Stake

\* The submit_turn calls on game g that return Ok in this state, and the claim_timeout
\* calls that do.
AcceptedMoves(g) ==
    {x \in Addr \X GuessInputs \X PublicInputs \X Proofs :
        submit_turn(g, resolve_caller_simple(g, x[1]), x[2][1], x[2][2], x[2][3], x[3], x[4]).err = "Ok"}

AcceptedTimeoutClaims(g) ==
    {x \in Addr \X RevealWords \X PublicInputs \X Proofs :
        claim_timeout(g, resolve_caller_simple(g, x[1]), x[2], x[3], x[4]).err = "Ok"}

\* C35: in every ACTIVE state exactly one of the two deadline checks passes, that of
\* submit_turn iff now <= deadline and that of claim_timeout iff now > deadline: up to
\* and at the deadline every claim_timeout returns WrongPhase and the player to move can
\* still move, past it every submit_turn returns GameExpired and a timeout can be
\* claimed; in no state is there both a submit_turn and a claim_timeout that return Ok.
C35_DeadlineChecksExclusive ==
    \A g \in GameIds :
        Phase(g) = PHASE_ACTIVE =>
            LET t == temporary[g] IN
            /\ ~submit_expired(t) <=> now <= t.gm_dead
            /\ ~timeout_too_early(t) <=> now > t.gm_dead
            /\ submit_expired(t) # timeout_too_early(t)
            /\ now <= t.gm_dead =>
                /\ AcceptedTimeoutClaims(g) = {}
                /\ AcceptedMoves(g) # {}
                /\ \A caller \in Addr, word \in RevealWords, public_inputs \in PublicInputs, proof_bytes \in Proofs :
                    claim_timeout(g, resolve_caller_simple(g, caller), word, public_inputs, proof_bytes).err = "WrongPhase"
            /\ now > t.gm_dead =>
                /\ AcceptedMoves(g) = {}
                /\ AcceptedTimeoutClaims(g) # {}
                /\ \A caller \in Addr, guess \in GuessInputs, public_inputs \in PublicInputs, proof_bytes \in Proofs :
                    submit_turn(g, resolve_caller_simple(g, caller), guess[1], guess[2], guess[3],
                                public_inputs, proof_bytes).err = "GameExpired"

\* C35 witness: time has run exactly to the deadline of a game past its first move; the
\* move is still accepted and no timeout can be claimed.
C35_Witness ==
    \E g \in GameIds :
        /\ Phase(g) = PHASE_ACTIVE /\ ret.op = "tick" /\ now = Deadline(g) /\ Turn(g) >= 2
        /\ Player1(g) # Player2(g)
        /\ AcceptedMoves(g) # {} /\ AcceptedTimeoutClaims(g) = {}

\* The calls the hub has received for game g (its session id), in order.
HubCallsOf(g) == SelectSeq(hub, LAMBDA c : c.session_id = GetOr(temporary[g], "gm_sid", 0))

\* C36: the hub has received nothing for a game that is not joined; for a joined game
\* it has received start_game once, first, with the two players, and after it end_game
\* once if the game is FINALIZED or in DRAW and not at all if it is ACTIVE or in REVEAL.
\* The hub is called only in the step that commits join_game (start_game) and in the
\* step that moves the game to FINALIZED or DRAW, which is a reveal_word, resign,
\* claim_timeout or the submit_turn of turn 13 (end_game); the submit_turn that moves
\* the game to REVEAL, reveal_word_draw and withdraw call nothing.
C36_HubNotifications ==
    /\ [](\A g \in GameIds :
            LET calls == HubCallsOf(g) IN
            IF ~Joined(g) THEN hub = <<>>
            ELSE /\ Len(calls) = (IF Phase(g) \in {PHASE_FINALIZED, PHASE_DRAW} THEN 2 ELSE 1)
                 /\ calls[1] = call_start_game(g, Player1(g), Player2(g))
                 /\ Len(calls) = 2 => calls[2].fn = "end_game")
    /\ [][hub' # hub =>
            /\ Len(hub') = Len(hub) + 1
            /\ \A g \in GameIds :
                ret'.game = g =>
                    \/ /\ ret'.op = "join_game" /\ hub'[Len(hub')].fn = "start_game"
                       /\ Phase(g) = PHASE_WAITING /\ Phase(g)' = PHASE_ACTIVE
                    \/ /\ ret'.op \in {"reveal_word", "resign", "claim_timeout"} /\ hub'[Len(hub')].fn = "end_game"
                       /\ Phase(g) # PHASE_FINALIZED /\ Phase(g)' = PHASE_FINALIZED
                    \/ /\ ret'.op = "submit_turn" /\ hub'[Len(hub')].fn = "end_game"
                       /\ Turn(g) = MAX_TURNS /\ Phase(g) = PHASE_ACTIVE /\ Phase(g)' = PHASE_DRAW
      ]_vars
    /\ [][\A g \in GameIds :
            (Phase(g)' # Phase(g) /\ Phase(g)' \in {PHASE_WAITING, PHASE_REVEAL}) => hub' = hub
      ]_vars

\* C36 witness: a drawn game in which both players have revealed and one has withdrawn;
\* the hub holds the start and the one end notification.
C36_Witness ==
    \E g \in GameIds :
        /\ Phase(g) = PHASE_DRAW /\ ret.op = "withdraw"
        /\ Revealed(g, Player1(g)) /\ Revealed(g, Player2(g))
        /\ Len(hub) = 2 /\ hub[1].fn = "start_game" /\ hub[2].fn = "end_game"

\* C37: in every joined game player2 differs from player1, and join_game by the identity
\* that created a WAITING game returns an error whatever commitment and proof it gives.
C37_PlayersDistinct ==
    \A g \in GameIds :
        /\ Joined(g) => Player2(g) # Player1(g)
        /\ Phase(g) = PHASE_WAITING =>
            \A c \in Commitments, wc \in WcPublicInputs, proof_bytes \in Proofs :
                join_game(g, Player1(g), c, wc, proof_bytes).err # "Ok"

\* Self-play: one identity holds both sides of a staked game, has won it by guessing its
\* own word on turn 2 and revealing, and has withdrawn the pot.
C37_SelfPlayPaidOut ==
    \E g \in GameIds :
        /\ Phase(g) = PHASE_FINALIZED /\ Player1(g) = Player2(g)
        /\ ret.op = "withdraw" /\ ret.actual = Player1(g) /\ ret.payout = 2 * Stake
        /\ Turn(g) = 2

====
